---- MODULE Spec2Model ----
(***************************************************************************)
(* A model of cleanproto: lowering of proto3 descriptors to the IR, the    *)
(* Go and JS emitters, the wire runtime the generated code calls, and the  *)
(* command-line driver.                                                    *)
(*                                                                         *)
(* Fixed-width integers are byte sequences in little-endian order (4 bytes *)
(* for the 32-bit kinds, 8 bytes for the 64-bit kinds), so every Go        *)
(* conversion (uint64(uint32(v)), int32(v), ...) is exact over the whole   *)
(* width.  Strings and byte slices are sequences of bytes.                 *)
(***************************************************************************)
EXTENDS Integers, Sequences, FiniteSets, TLC

VARIABLES
    \* the codec: a message type, a value of it, the bytes on the wire
    msgType,    \* the message's fields, in declaration order
    msgValue,   \* the value of each field
    wire,       \* the bytes in flight
    clean,      \* the bytes as the producer wrote them
    cuts,       \* cuts[k+1]: the offset in wire after the k-th field's bytes
    unknown,    \* how many unknown records were put on the wire
    producer,   \* "go", "js" or "peer" once encoded
    decoder,    \* "go" or "js" once decoded
    result,     \* what the decoder returned: [err, m]
    prior,      \* the bytes written before the field's js_type was changed
    pc,         \* "new", "encoded", "decoded"
    \* lowering: one field descriptor and what collectFields made of it
    fd,         \* the field descriptor
    lowered,    \* [done, err, field]
    names,      \* the names of the declarations lowering is given
    mangled,    \* what lowering and the Go emitter made of them
    \* the driver: one invocation of the command
    inputs,     \* the file descriptors named on the command line
    flags,      \* -go_out, -go_pkg, -js_out
    rpc,        \* where main is: "parse", "check", "gogen", "gowrite", ...
    idx,        \* the index of the running loop
    acc,        \* the list the running loop appends to
    util,       \* utilPkg and utilDir of the Go generator
    seen,       \* the indices each loop has visited: [parse, go, js]
    parseRet,   \* what Parse returned: [done, err, files]
    goRet,      \* what the Go generator returned: [done, err, out]
    jsRet,      \* what the JS generator returned: [done, err, out]
    disk,       \* the files written: a set of [Path, Content]
    exitErr     \* the message main printed before os.Exit(1)

codecVars == <<msgType, msgValue, wire, clean, cuts, unknown, producer, decoder, result, prior, pc>>

lowerVars == <<fd, lowered, names, mangled>>

runVars == <<inputs, flags, rpc, idx, acc, util, seen, parseRet, goRet, jsRet, disk, exitErr>>

vars == <<codecVars, lowerVars, runVars>>

(***************************************************************************)
(* Bounds of the model.                                                    *)
(***************************************************************************)
MaxListLen == 2
MaxFiles == 2

(***************************************************************************)
(* Fixed-width two's complement integers as little-endian byte sequences.  *)
(***************************************************************************)
Zeros(n) == [i \in 1..n |-> 0]

Pow2(k) == 2^k

ByteAt(u, j) == IF j \in 1..Len(u) THEN u[j] ELSE 0

\* The non-negative integer n < 2^31 as w bytes.
NatBytes(n, w) == [j \in 1..w |-> IF j <= 4 THEN (n \div (256^(j-1))) % 256 ELSE 0]

\* The integer n (-2^31 <= n < 2^31) as w bytes in two's complement.
IntBytes(n, w) ==
    IF n >= 0 THEN NatBytes(n, w)
    ELSE [j \in 1..w |-> 255 - NatBytes(-n - 1, w)[j]]

IsNegative(u) == u[Len(u)] >= 128

IsZero(u) == \A j \in 1..Len(u) : u[j] = 0

\* uint64(uint32(v)) and uint64(v) for an unsigned v.
ZeroExtend(v) == v \o Zeros(8 - Len(v))

\* int64(v) for a signed v.
SignExtend(v) == v \o [i \in 1..(8 - Len(v)) |-> IF IsNegative(v) THEN 255 ELSE 0]

\* int32(u), uint32(u) for a 64-bit u.
Truncate32(u) == SubSeq(u, 1, 4)

ShiftLeft1(u) ==
    [j \in 1..Len(u) |-> (2 * u[j] + (IF j > 1 THEN u[j-1] \div 128 ELSE 0)) % 256]

ShiftRight1(u) ==
    [j \in 1..Len(u) |-> (u[j] \div 2) + (IF j < Len(u) THEN (u[j+1] % 2) * 128 ELSE 0)]

BitNot(u) == [j \in 1..Len(u) |-> 255 - u[j]]

\* The integer a byte sequence holds, for -2^31 <= n < 2^31.
NatOf(u) == u[1] + 256 * u[2] + 65536 * u[3] + 16777216 * u[4]

IntOf(u) == IF IsNegative(u) THEN -NatOf(BitNot(u)) - 1 ELSE NatOf(u)

(***************************************************************************)
(* google.golang.org/protobuf/encoding/protowire, the wire primitives the  *)
(* runtime is written against.                                             *)
(***************************************************************************)
VarintType == 0
Fixed64Type == 1
BytesType == 2
StartGroupType == 3
EndGroupType == 4
Fixed32Type == 5

\* The i-th 7-bit group (i in 1..10) of the 64-bit value u.
VarintGroup(u, i) ==
    LET o == 7 * (i - 1)
        j == o \div 8
        s == o % 8
    IN  ((ByteAt(u, j + 1) \div Pow2(s)) + ByteAt(u, j + 2) * Pow2(8 - s)) % 128

VarintLen(u) ==
    IF \E i \in 1..10 : VarintGroup(u, i) # 0
    THEN CHOOSE i \in 1..10 :
            /\ VarintGroup(u, i) # 0
            /\ \A k \in (i+1)..10 : VarintGroup(u, k) = 0
    ELSE 1

AppendVarint(b, u) ==
    b \o [i \in 1..VarintLen(u) |->
            VarintGroup(u, i) + (IF i < VarintLen(u) THEN 128 ELSE 0)]

\* (x << 1) ^ (x >> 63)
EncodeZigZag(x) == IF IsNegative(x) THEN BitNot(ShiftLeft1(x)) ELSE ShiftLeft1(x)

\* (u >> 1) ^ -(u & 1)
DecodeZigZag(u) == IF u[1] % 2 = 1 THEN BitNot(ShiftRight1(u)) ELSE ShiftRight1(u)

\* uint64(num)<<3 | uint64(typ)
EncodeTag(num, typ) ==
    LET s == ShiftLeft1(ShiftLeft1(ShiftLeft1(NatBytes(num, 8))))
    IN  [s EXCEPT ![1] = s[1] + typ]

AppendTag(b, num, typ) == AppendVarint(b, EncodeTag(num, typ))

AppendFixed32(b, v) == b \o v

AppendFixed64(b, v) == b \o v

\* A length prefix (a varint) and the bytes.
AppendBytes(b, v) == AppendVarint(b, NatBytes(Len(v), 8)) \o v

\* The position of the byte that ends the varint at the head of b, 0 if none
\* of the first ten bytes ends it.
VarintEnd(b) ==
    LET lim == IF Len(b) < 10 THEN Len(b) ELSE 10
    IN  IF \E i \in 1..lim : b[i] < 128
        THEN CHOOSE i \in 1..lim : b[i] < 128 /\ \A k \in 1..(i-1) : b[k] >= 128
        ELSE 0

\* [n, v]: n bytes consumed (negative: a parse error) and the value.
ConsumeVarint(b) ==
    LET e == VarintEnd(b)
        g(i) == IF i <= e THEN b[i] % 128 ELSE 0
    IN  IF e = 0 \/ (e = 10 /\ b[10] > 1)
        THEN [n |-> -1, v |-> Zeros(8)]
        ELSE [n |-> e,
              v |-> [j \in 1..8 |->
                        LET i0 == (8 * (j - 1)) \div 7
                            s  == (8 * (j - 1)) % 7
                        IN  ((g(i0 + 1) \div Pow2(s)) + g(i0 + 2) * Pow2(7 - s)) % 256]]

Drop(b, n) == SubSeq(b, n + 1, Len(b))

ConsumeFixed(b, w) ==
    IF Len(b) < w THEN [n |-> -1, v |-> Zeros(w)]
    ELSE [n |-> w, v |-> SubSeq(b, 1, w)]

\* The length of a length prefix as a number; -1 when it cannot be a length
\* of a buffer the model holds.
SmallNat(u) ==
    IF \A j \in 3..8 : u[j] = 0 THEN u[1] + 256 * u[2] ELSE -1

\* The bytes after the length prefix h read from the head of b.
BytesAfterPrefix(h, b) ==
    IF h.n < 0 THEN [n |-> -1, v |-> <<>>]
    ELSE IF SmallNat(h.v) < 0 \/ SmallNat(h.v) > Len(b) - h.n THEN [n |-> -1, v |-> <<>>]
    ELSE [n |-> h.n + SmallNat(h.v), v |-> SubSeq(b, h.n + 1, h.n + SmallNat(h.v))]

ProtowireConsumeBytes(b) == BytesAfterPrefix(ConsumeVarint(b), b)

(***************************************************************************)
(* Go runtime helpers emitted into util.go (utilExtra).                    *)
(* A 32-bit value is 4 bytes, a 64-bit value 8 bytes, a float its IEEE bit *)
(* pattern, a pointer a record [set, v] with set = FALSE for nil.          *)
(***************************************************************************)
\* v == 0 for a float32/float64 given by its bits: true of +0 and of -0.
FloatIsZero(v) ==
    /\ \A j \in 1..(Len(v) - 1) : v[j] = 0
    /\ v[Len(v)] \in {0, 128}

AppendVarIntField(b, v, num) ==
    IF IsZero(v) THEN b
    ELSE AppendVarint(AppendTag(b, num, VarintType), v)

AppendStringField(b, v, num) ==
    IF v = <<>> THEN b
    ELSE AppendBytes(AppendTag(b, num, BytesType), v)

AppendStringFieldOpt(b, v, num) ==
    IF ~v.set \/ v.v = <<>> THEN b
    ELSE AppendBytes(AppendTag(b, num, BytesType), v.v)

AppendBytesField(b, v, num) ==
    IF Len(v) = 0 THEN b
    ELSE AppendBytes(AppendTag(b, num, BytesType), v)

AppendBoolField(b, v, num) ==
    IF ~v THEN b
    ELSE AppendVarint(AppendTag(b, num, VarintType), NatBytes(1, 8))

AppendBoolFieldOpt(b, v, num) ==
    IF ~v.set \/ ~v.v THEN b
    ELSE AppendVarint(AppendTag(b, num, VarintType), NatBytes(1, 8))

\* AppendInt32Field without its test for zero.
AppendInt32FieldAlways(b, v, num) ==
    AppendVarint(AppendTag(b, num, VarintType), ZeroExtend(v))

AppendInt32Field(b, v, num) ==
    IF IsZero(v) THEN b
    ELSE AppendVarint(AppendTag(b, num, VarintType), ZeroExtend(v))

AppendInt32FieldOpt(b, v, num) ==
    IF ~v.set \/ IsZero(v.v) THEN b
    ELSE AppendVarint(AppendTag(b, num, VarintType), ZeroExtend(v.v))

\* AppendFloat32Field .. AppendSfixed64Field, the helpers of the numeric kinds
\* other than int32, selected by the helper's name.
AppendNumericField(helper, b, v, num) ==
    CASE helper = "AppendFloat32Field" ->
            IF FloatIsZero(v) THEN b
            ELSE AppendFixed32(AppendTag(b, num, Fixed32Type), v)
      [] helper = "AppendFloat64Field" ->
            IF FloatIsZero(v) THEN b
            ELSE AppendFixed64(AppendTag(b, num, Fixed64Type), v)
      [] helper = "AppendUint32Field" ->
            IF IsZero(v) THEN b
            ELSE AppendVarint(AppendTag(b, num, VarintType), ZeroExtend(v))
      [] helper = "AppendSint32Field" ->
            IF IsZero(v) THEN b
            ELSE AppendVarint(AppendTag(b, num, VarintType), EncodeZigZag(SignExtend(v)))
      [] helper = "AppendInt64Field" ->
            IF IsZero(v) THEN b
            ELSE AppendVarint(AppendTag(b, num, VarintType), v)
      [] helper = "AppendUint64Field" ->
            IF IsZero(v) THEN b
            ELSE AppendVarint(AppendTag(b, num, VarintType), v)
      [] helper = "AppendSint64Field" ->
            IF IsZero(v) THEN b
            ELSE AppendVarint(AppendTag(b, num, VarintType), EncodeZigZag(v))
      [] helper = "AppendFixed32Field" ->
            IF IsZero(v) THEN b
            ELSE AppendFixed32(AppendTag(b, num, Fixed32Type), v)
      [] helper = "AppendFixed64Field" ->
            IF IsZero(v) THEN b
            ELSE AppendFixed64(AppendTag(b, num, Fixed64Type), v)
      [] helper = "AppendSfixed32Field" ->
            IF IsZero(v) THEN b
            ELSE AppendFixed32(AppendTag(b, num, Fixed32Type), v)
      [] helper = "AppendSfixed64Field" ->
            IF IsZero(v) THEN b
            ELSE AppendFixed64(AppendTag(b, num, Fixed64Type), v)

NumericFieldHelpers ==
    {"AppendFloat32Field", "AppendFloat64Field", "AppendUint32Field",
     "AppendSint32Field", "AppendInt64Field", "AppendUint64Field",
     "AppendSint64Field", "AppendFixed32Field", "AppendFixed64Field",
     "AppendSfixed32Field", "AppendSfixed64Field"}

\* AppendFloat32FieldOpt .. AppendSfixed64FieldOpt: nil and a pointer to the
\* zero value both return b unchanged; otherwise as the plain helper.
AppendNumericFieldOpt(helper, b, v, num) ==
    LET base == CHOOSE h \in NumericFieldHelpers : h \o "Opt" = helper
    IN  IF ~v.set THEN b ELSE AppendNumericField(base, b, v.v, num)

\* AppendBoolCompact .. AppendSfixed64Compact: the value with no tag, the
\* zero value included.
AppendCompact(helper, b, v) ==
    CASE helper = "AppendBoolCompact" ->
            IF v THEN AppendVarint(b, NatBytes(1, 8)) ELSE AppendVarint(b, NatBytes(0, 8))
      [] helper \in {"AppendFloat32Compact", "AppendFixed32Compact", "AppendSfixed32Compact"} ->
            AppendFixed32(b, v)
      [] helper \in {"AppendFloat64Compact", "AppendFixed64Compact", "AppendSfixed64Compact"} ->
            AppendFixed64(b, v)
      [] helper \in {"AppendInt32Compact", "AppendUint32Compact"} ->
            AppendVarint(b, ZeroExtend(v))
      [] helper = "AppendSint32Compact" ->
            AppendVarint(b, EncodeZigZag(SignExtend(v)))
      [] helper \in {"AppendInt64Compact", "AppendUint64Compact"} ->
            AppendVarint(b, v)
      [] helper = "AppendSint64Compact" ->
            AppendVarint(b, EncodeZigZag(v))

(***************************************************************************)
(* The IR (internal/ir): kinds and fields.  A field is a record            *)
(* [Name, Number, Kind, IsRepeated, IsOptional, IsPacked, IsMap,           *)
(*  IsTimestamp, IsDuration, GoType, JSType].                              *)
(***************************************************************************)
ScalarKinds ==
    {"Bool", "Int32", "Sint32", "Uint32", "Int64", "Sint64", "Uint64",
     "Fixed32", "Fixed64", "Sfixed32", "Sfixed64", "Float", "Double",
     "String", "Bytes", "Enum"}

Kinds == ScalarKinds \cup {"Message"}

\* The width in bytes of a numeric kind's Go value.
KindWidth(kind) ==
    IF kind \in {"Int32", "Sint32", "Uint32", "Fixed32", "Sfixed32", "Float", "Enum"}
    THEN 4 ELSE 8

\* The full name of the message type of a field of kind Message: a
\* well-known type, or the one other message of the schemas, demo.Inner;
\* lowering leaves it empty on a map field.
MessageFullName(field) ==
    IF field.IsTimestamp THEN "google.protobuf.Timestamp"
    ELSE IF field.IsDuration THEN "google.protobuf.Duration"
    ELSE IF field.Kind = "Message" /\ ~field.IsMap THEN "demo.Inner"
    ELSE ""

(***************************************************************************)
(* The Go emitter (internal/generate/go): which helper each field's        *)
(* generated line calls, and what the generated Encode computes.           *)
(***************************************************************************)
goAppendHelperName(kind, optional) ==
    LET base ==
            CASE kind = "String" -> "AppendStringField"
              [] kind = "Bytes" -> "AppendBytesField"
              [] kind = "Bool" -> "AppendBoolField"
              [] kind = "Float" -> "AppendFloat32Field"
              [] kind = "Double" -> "AppendFloat64Field"
              [] kind \in {"Int32", "Enum"} -> "AppendInt32Field"
              [] kind = "Sint32" -> "AppendSint32Field"
              [] kind = "Uint32" -> "AppendUint32Field"
              [] kind = "Int64" -> "AppendInt64Field"
              [] kind = "Sint64" -> "AppendSint64Field"
              [] kind = "Uint64" -> "AppendUint64Field"
              [] kind = "Fixed32" -> "AppendFixed32Field"
              [] kind = "Fixed64" -> "AppendFixed64Field"
              [] kind = "Sfixed32" -> "AppendSfixed32Field"
              [] kind = "Sfixed64" -> "AppendSfixed64Field"
              [] OTHER -> "error"
    IN  IF base = "error" THEN "error"
        ELSE IF optional
             THEN (IF base = "AppendBytesField" THEN "error" ELSE base \o "Opt")
             ELSE base

goAppendCompactHelperName(kind) ==
    CASE kind = "Bool" -> "AppendBoolCompact"
      [] kind = "Float" -> "AppendFloat32Compact"
      [] kind = "Double" -> "AppendFloat64Compact"
      [] kind \in {"Int32", "Enum"} -> "AppendInt32Compact"
      [] kind = "Uint32" -> "AppendUint32Compact"
      [] kind = "Sint32" -> "AppendSint32Compact"
      [] kind = "Int64" -> "AppendInt64Compact"
      [] kind = "Uint64" -> "AppendUint64Compact"
      [] kind = "Sint64" -> "AppendSint64Compact"
      [] kind = "Fixed32" -> "AppendFixed32Compact"
      [] kind = "Sfixed32" -> "AppendSfixed32Compact"
      [] kind = "Fixed64" -> "AppendFixed64Compact"
      [] kind = "Sfixed64" -> "AppendSfixed64Compact"
      [] OTHER -> "error"

isGoPackable(kind) == kind \notin {"String", "Bytes", "Message"}

goWireType(kind) ==
    CASE kind \in {"String", "Bytes", "Message"} -> BytesType
      [] kind \in {"Fixed32", "Sfixed32", "Float"} -> Fixed32Type
      [] kind \in {"Fixed64", "Sfixed64", "Double"} -> Fixed64Type
      [] OTHER -> VarintType

\* The call "b = <helper>(b, v, num)" of a generated line.
CallAppendHelper(helper, b, v, num) ==
    CASE helper = "AppendStringField" -> AppendStringField(b, v, num)
      [] helper = "AppendStringFieldOpt" -> AppendStringFieldOpt(b, v, num)
      [] helper = "AppendBytesField" -> AppendBytesField(b, v, num)
      [] helper = "AppendBoolField" -> AppendBoolField(b, v, num)
      [] helper = "AppendBoolFieldOpt" -> AppendBoolFieldOpt(b, v, num)
      [] helper = "AppendInt32Field" -> AppendInt32Field(b, v, num)
      [] helper = "AppendInt32FieldOpt" -> AppendInt32FieldOpt(b, v, num)
      [] helper \in NumericFieldHelpers -> AppendNumericField(helper, b, v, num)
      [] OTHER -> AppendNumericFieldOpt(helper, b, v, num)

\* b = <helper>(b, m.X, N)
goEncodeField(field, b, v) ==
    CallAppendHelper(goAppendHelperName(field.Kind, FALSE), b, v, field.Number)

\* if m.X != nil { b = AppendBytesField(b, *m.X, N) } for bytes, otherwise
\* b = <helper>Opt(b, m.X, N)
goEncodeOptionalField(field, b, v) ==
    IF field.Kind = "Bytes"
    THEN (IF v.set THEN AppendBytesField(b, v.v, field.Number) ELSE b)
    ELSE CallAppendHelper(goAppendHelperName(field.Kind, TRUE), b, v, field.Number)

RECURSIVE AppendRepeated(_, _, _, _)
\* b = AppendRepeated(b, m.X, AppendFieldDecorator(<helper>, N))
AppendRepeated(b, values, helper, num) ==
    IF values = <<>> THEN b
    ELSE AppendRepeated(CallAppendHelper(helper, b, Head(values), num),
                        Tail(values), helper, num)

RECURSIVE PackedValues(_, _, _)
PackedValues(packed, values, helper) ==
    IF values = <<>> THEN packed
    ELSE PackedValues(AppendCompact(helper, packed, Head(values)), Tail(values), helper)

\* AppendRepeatedCompact without its return on an empty payload.
AppendRepeatedCompactAlways(b, values, num, helper) ==
    AppendBytes(AppendTag(b, num, BytesType), PackedValues(<<>>, values, helper))

\* b = AppendRepeatedCompact(b, m.X, N, AppendCompactDecorator(<helper>))
AppendRepeatedCompact(b, values, num, helper) ==
    LET packed == PackedValues(<<>>, values, helper)
    IN  IF Len(packed) = 0 THEN b
        ELSE AppendBytes(AppendTag(b, num, BytesType), packed)

goEncodeRepeated(field, b, v) ==
    AppendRepeated(b, v, goAppendHelperName(field.Kind, FALSE), field.Number)

goEncodePacked(field, b, v) ==
    AppendRepeatedCompact(b, v, field.Number, goAppendCompactHelperName(field.Kind))

(***************************************************************************)
(* Map fields.  A Go map is a set of <<key, value>> pairs with distinct    *)
(* keys, the nil map the empty set; a *T is [set, v], nil with set FALSE.  *)
(***************************************************************************)
\* The fields of the message msgIndex holds for a map's value type: the
\* message Inner { int32 n = 1; } of the model.
MessageIndex(fullName) ==
    IF fullName = "demo.Inner"
    THEN <<[Name |-> "n", Number |-> 1, Kind |-> "Int32",
            IsRepeated |-> FALSE, IsOptional |-> FALSE, IsPacked |-> FALSE,
            IsMap |-> FALSE, IsTimestamp |-> FALSE, IsDuration |-> FALSE,
            GoType |-> "", JSType |-> "",
            MapKeyKind |-> "", MapValueKind |-> "", MapValueMessage |-> ""]>>
    ELSE <<>>

RECURSIVE GoEncode(_, _)
\* AppendMessageFieldDecorator[*T](num): AppendBytesField(b, value.Encode(), num)
AppendMessageField(fields, b, value, num) ==
    AppendBytesField(b, GoEncode(fields, value.v), num)

\* entry = appendKey(entry, key); entry = appendValue(entry, value)
MapEntry(field, key, value) ==
    IF field.MapValueKind = "Message"
    THEN AppendMessageField(MessageIndex(field.MapValueMessage),
            CallAppendHelper(goAppendHelperName(field.MapKeyKind, FALSE), <<>>, key, 1),
            value, 2)
    ELSE CallAppendHelper(goAppendHelperName(field.MapValueKind, FALSE),
            CallAppendHelper(goAppendHelperName(field.MapKeyKind, FALSE), <<>>, key, 1),
            value, 2)

RECURSIVE AppendMap(_, _, _)
\* b = AppendMap(b, m.X, N, appendKey, appendValue), pairs the entries in
\* the order this run of the range statement yields them.
AppendMap(field, b, pairs) ==
    IF pairs = <<>> THEN b
    ELSE AppendMap(field,
            AppendBytes(AppendTag(b, field.Number, BytesType),
                        MapEntry(field, Head(pairs)[1], Head(pairs)[2])),
            Tail(pairs))

goEncodeMap(field, b, v) == AppendMap(field, b, v)

(***************************************************************************)
(* Integer-backed time fields.  A time.Time is [zero, ms]: the zero Time,  *)
(* or the instant ms milliseconds after the epoch.                         *)
(***************************************************************************)
ZeroTime == [zero |-> TRUE, ms |-> 0]

UnixMilliTime(ms) == [zero |-> FALSE, ms |-> ms]

\* uint64(uint32(t.Unix())), uint64(t.UnixMilli()), ... as goTimestampValue
\* writes the expression.
goTimestampValue(t, unit, kind) ==
    IF kind = "Int32"
    THEN ZeroExtend(IntBytes(IF unit = "milliseconds" THEN t.ms ELSE t.ms \div 1000, 4))
    ELSE IntBytes(IF unit = "milliseconds" THEN t.ms ELSE t.ms \div 1000, 8)

(***************************************************************************)
(* Well-known time fields in Go.  Under the unit "wkt" a time.Time is       *)
(* [sec, nsec]: t.Unix() as 8 bytes and t.Nanosecond(); a time.Duration is *)
(* [s, n]: d / time.Second and d % time.Second, of one sign.               *)
(***************************************************************************)
\* (time.Time{}).Unix(), -62135596800.
ZeroTimeSeconds == <<0, 9, 110, 136, 241, 255, 255, 255>>

\* t.IsZero()
TimeIsZero(t) == t.sec = ZeroTimeSeconds /\ t.nsec = 0

\* d == 0
DurationIsZero(d) == d.s = 0 /\ d.n = 0

\* The body both EncodeTimestamp and EncodeDuration share: field 1 the
\* seconds, field 2 uint64(uint32(nanos)) unless nanos is 0.
AppendSecondsNanos(seconds, nanos) ==
    IF nanos # 0
    THEN AppendVarint(AppendTag(AppendVarint(AppendTag(<<>>, 1, VarintType), seconds),
                                2, VarintType),
                      ZeroExtend(IntBytes(nanos, 4)))
    ELSE AppendVarint(AppendTag(<<>>, 1, VarintType), seconds)

\* func EncodeTimestamp(t time.Time) []byte
EncodeTimestamp(t) ==
    IF TimeIsZero(t) THEN <<>> ELSE AppendSecondsNanos(t.sec, t.nsec)

\* func EncodeDuration(d time.Duration) []byte
EncodeDuration(d) ==
    IF DurationIsZero(d) THEN <<>> ELSE AppendSecondsNanos(IntBytes(d.s, 8), d.n)

RECURSIVE goEncodeTimestampItems(_, _, _)
\* for _, item := range m.X { if item.IsZero() { continue }; b = ... }
goEncodeTimestampItems(field, b, items) ==
    IF items = <<>> THEN b
    ELSE goEncodeTimestampItems(field,
            IF TimeIsZero(Head(items)) THEN b
            ELSE AppendBytesField(b, EncodeTimestamp(Head(items)), field.Number),
            Tail(items))

\* The lines of goEncodeTimestamp for a field whose unit is "wkt".
goEncodeTimestampWkt(field, b, v) ==
    IF field.IsRepeated THEN goEncodeTimestampItems(field, b, v)
    ELSE IF field.IsOptional
    THEN IF v.set /\ ~TimeIsZero(v.v)
         THEN AppendBytesField(b, EncodeTimestamp(v.v), field.Number)
         ELSE b
    ELSE IF ~TimeIsZero(v)
         THEN AppendBytesField(b, EncodeTimestamp(v), field.Number)
         ELSE b

RECURSIVE goEncodeDurationItems(_, _, _)
\* for _, item := range m.X { if item == 0 { continue }; b = ... }
goEncodeDurationItems(field, b, items) ==
    IF items = <<>> THEN b
    ELSE goEncodeDurationItems(field,
            IF DurationIsZero(Head(items)) THEN b
            ELSE AppendBytesField(b, EncodeDuration(Head(items)), field.Number),
            Tail(items))

goEncodeDuration(field, b, v) ==
    IF field.IsRepeated THEN goEncodeDurationItems(field, b, v)
    ELSE IF field.IsOptional
    THEN IF v.set /\ ~DurationIsZero(v.v)
         THEN AppendBytesField(b, EncodeDuration(v.v), field.Number)
         ELSE b
    ELSE IF ~DurationIsZero(v)
         THEN AppendBytesField(b, EncodeDuration(v), field.Number)
         ELSE b

\* The lines of goEncodeTimestamp; for a unit other than "wkt", those of a
\* singular field.
goEncodeTimestamp(field, b, v) ==
    IF field.TimestampUnit = "wkt" THEN goEncodeTimestampWkt(field, b, v)
    ELSE IF field.IsOptional
    THEN IF v.set /\ ~v.v.zero
         THEN AppendVarIntField(b, goTimestampValue(v.v, field.TimestampUnit, field.Kind),
                                field.Number)
         ELSE b
    ELSE IF ~v.zero
         THEN AppendVarIntField(b, goTimestampValue(v, field.TimestampUnit, field.Kind),
                                field.Number)
         ELSE b

\* The lines one field contributes to the generated Encode.
buildGoEncodeLines(field, b, v) ==
    CASE field.IsTimestamp -> goEncodeTimestamp(field, b, v)
      [] field.IsDuration -> goEncodeDuration(field, b, v)
      [] field.IsMap -> goEncodeMap(field, b, v)
      [] field.IsRepeated /\ field.IsPacked /\ isGoPackable(field.Kind) ->
            goEncodePacked(field, b, v)
      [] field.IsRepeated -> goEncodeRepeated(field, b, v)
      [] field.IsOptional -> goEncodeOptionalField(field, b, v)
      [] OTHER -> goEncodeField(field, b, v)

RECURSIVE GoEncodePrefix(_, _, _)
\* The buffer after the lines of the first k fields have run.
GoEncodePrefix(msg, m, k) ==
    IF k = 0 THEN <<>>
    ELSE buildGoEncodeLines(msg[k], GoEncodePrefix(msg, m, k - 1), m[k])

\* func (m *T) Encode() []byte
GoEncode(msg, m) == GoEncodePrefix(msg, m, Len(msg))

(***************************************************************************)
(* The base runtime (protowireu) that util.go is copied from: the Consume  *)
(* functions over protowire.  A result is [err, b, v]: the error flag, the *)
(* rest of the buffer, the value.                                          *)
(***************************************************************************)
Fail == [err |-> TRUE, b |-> <<>>, v |-> <<>>]

Ok(b, v) == [err |-> FALSE, b |-> b, v |-> v]

\* protowire.DecodeTag: the field number u >> 3 of the tag u, -1 when it is
\* above MaxInt32.
FieldNumber(u) ==
    IF (\E j \in 6..8 : u[j] # 0) \/ u[5] >= 4 THEN -1
    ELSE (u[1] \div 8) + 32 * u[2] + 8192 * u[3] + 2097152 * u[4] + 536870912 * u[5]

\* The tag h read from the head of b: field numbers below 1 or above
\* MaxInt32 are errors.
TagResult(h, b) ==
    IF h.n < 0 \/ FieldNumber(h.v) < 1
    THEN [err |-> TRUE, b |-> <<>>, num |-> 0, typ |-> 0]
    ELSE [err |-> FALSE, b |-> Drop(b, h.n), num |-> FieldNumber(h.v), typ |-> h.v[1] % 8]

\* [err, b, num, typ]
ConsumeTag(b) == TagResult(ConsumeVarint(b), b)

\* The result of a protowire read h = [n, v] from the head of b, valid only
\* under the wire-type check typeOk.
Consumed(h, b, typeOk) ==
    IF ~typeOk \/ h.n < 0 THEN Fail ELSE Ok(Drop(b, h.n), h.v)

ConsumeVarIntRaw(b, typ) == Consumed(ConsumeVarint(b), b, typ = VarintType)

ConsumeFixedRaw(b, typ, want, w) == Consumed(ConsumeFixed(b, w), b, typ = want)

ConsumeBytes(b, typ) == Consumed(ProtowireConsumeBytes(b), b, typ = BytesType)

ConsumeMessage(b, typ) == ConsumeBytes(b, typ)

\* The conversion each Consume function applies to the raw value it read.
ConsumeConvert(fn, r) ==
    IF r.err THEN Fail
    ELSE CASE fn = "ConsumeBool" -> Ok(r.b, ~IsZero(r.v))
           [] fn \in {"ConsumeVarInt32", "ConsumeVarUint32"} -> Ok(r.b, Truncate32(r.v))
           [] fn = "ConsumeSint32" -> Ok(r.b, Truncate32(DecodeZigZag(r.v)))
           [] fn = "ConsumeSint64" -> Ok(r.b, DecodeZigZag(r.v))
           [] OTHER -> r

\* The Consume function of the given name applied to (b, typ).
Consume(fn, b, typ) ==
    ConsumeConvert(fn,
        CASE fn \in {"ConsumeString", "ConsumeBytesCopy", "ConsumeBytes"} ->
                ConsumeBytes(b, typ)
          [] fn \in {"ConsumeFixedUint32", "ConsumeSfixed32", "ConsumeFloat32"} ->
                ConsumeFixedRaw(b, typ, Fixed32Type, 4)
          [] fn \in {"ConsumeFixedUint64", "ConsumeSfixed64", "ConsumeFloat64"} ->
                ConsumeFixedRaw(b, typ, Fixed64Type, 8)
          [] OTHER -> ConsumeVarIntRaw(b, typ))

\* A result without its value: [err, b].
Skipped(r) == [err |-> r.err, b |-> r.b, v |-> <<>>]

\* protowire.ConsumeFieldValue by wire type.  Groups do not occur in the
\* streams of this model and are reported as errors.
SkipFieldValue(b, num, typ) ==
    Skipped(CASE typ = VarintType -> ConsumeVarIntRaw(b, typ)
              [] typ = Fixed32Type -> ConsumeFixedRaw(b, typ, Fixed32Type, 4)
              [] typ = Fixed64Type -> ConsumeFixedRaw(b, typ, Fixed64Type, 8)
              [] typ = BytesType -> ConsumeBytes(b, typ)
              [] OTHER -> Fail)

(***************************************************************************)
(* Go runtime helpers of util.go (utilExtra), decoding side.               *)
(***************************************************************************)
ConsumeRepeatedElement(b, typ, consume) == Consume(consume, b, typ)

RECURSIVE ConsumePackedItems(_, _, _, _)
RECURSIVE ConsumePackedItem(_, _, _, _)
\* The loop "for len(packed) > 0" of ConsumeRepeatedCompact: [err, b, v].
ConsumePackedItems(packed, elemTyp, consume, items) ==
    IF Len(packed) = 0 THEN Ok(<<>>, items)
    ELSE ConsumePackedItem(Consume(consume, packed, elemTyp), elemTyp, consume, items)

\* One turn of the loop, r the result of consume(packed, elemTyp).
ConsumePackedItem(r, elemTyp, consume, items) ==
    IF r.err THEN Fail
    ELSE ConsumePackedItems(r.b, elemTyp, consume, Append(items, r.v))

\* return b, items, nil, with b the buffer after the packed block.
PackedResult(r, b) == IF r.err THEN Fail ELSE Ok(b, r.v)

\* The body of ConsumeRepeatedCompact after b, packed, err = ConsumeBytes(b, typ).
PackedBlock(p, elemTyp, consume) ==
    IF p.err THEN Fail
    ELSE PackedResult(ConsumePackedItems(p.v, elemTyp, consume, <<>>), p.b)

ConsumeRepeatedCompact(b, typ, elemTyp, consume) ==
    IF typ # BytesType \/ elemTyp = BytesType THEN Fail
    ELSE PackedBlock(ConsumeBytes(b, typ), elemTyp, consume)

\* return b, &v, nil
Pointer(r) == IF r.err THEN Fail ELSE Ok(r.b, [set |-> TRUE, v |-> r.v])

\* ConsumeVarInt32Opt .. ConsumeBytesOpt: the plain function, the value
\* returned behind a pointer.
ConsumeOpt(consume, b, typ) == Pointer(Consume(consume, b, typ))

(***************************************************************************)
(* The Go emitter, decoding side: the case generated for each field and    *)
(* the generated Decode loop.                                              *)
(***************************************************************************)
goConsumeFunc(kind) ==
    CASE kind = "String" -> "ConsumeString"
      [] kind = "Bytes" -> "ConsumeBytesCopy"
      [] kind = "Bool" -> "ConsumeBool"
      [] kind = "Float" -> "ConsumeFloat32"
      [] kind = "Double" -> "ConsumeFloat64"
      [] kind \in {"Int32", "Enum"} -> "ConsumeVarInt32"
      [] kind = "Sint32" -> "ConsumeSint32"
      [] kind = "Uint32" -> "ConsumeVarUint32"
      [] kind = "Int64" -> "ConsumeVarInt64"
      [] kind = "Sint64" -> "ConsumeSint64"
      [] kind = "Uint64" -> "ConsumeVarUint64"
      [] kind = "Fixed32" -> "ConsumeFixedUint32"
      [] kind = "Fixed64" -> "ConsumeFixedUint64"
      [] kind = "Sfixed32" -> "ConsumeSfixed32"
      [] kind = "Sfixed64" -> "ConsumeSfixed64"
      [] OTHER -> "error"

\* b, m.X, err = Consume<Kind>(b, typ)
goDecodeScalar(field, b, typ) == Consume(goConsumeFunc(field.Kind), b, typ)

\* b, m.X, err = Consume<Kind>Opt(b, typ)
goDecodeOptionalScalar(field, b, typ) == ConsumeOpt(goConsumeFunc(field.Kind), b, typ)

\* The zero value of the Go struct field generated for the field.
GoZeroValue(field) ==
    CASE (field.IsTimestamp \/ field.IsDuration) /\ field.IsRepeated -> <<>>
      [] field.IsDuration /\ field.IsOptional -> [set |-> FALSE, v |-> [s |-> 0, n |-> 0]]
      [] field.IsDuration -> [s |-> 0, n |-> 0]
      [] field.IsTimestamp /\ field.TimestampUnit = "wkt" /\ field.IsOptional ->
            [set |-> FALSE, v |-> [sec |-> ZeroTimeSeconds, nsec |-> 0]]
      [] field.IsTimestamp /\ field.TimestampUnit = "wkt" ->
            [sec |-> ZeroTimeSeconds, nsec |-> 0]
      [] field.IsTimestamp /\ field.IsOptional -> [set |-> FALSE, v |-> ZeroTime]
      [] field.IsTimestamp -> ZeroTime
      [] field.IsMap -> {}
      [] field.IsRepeated -> <<>>
      [] field.Kind = "Message" -> [set |-> FALSE, v |-> <<>>]
      [] field.IsOptional /\ field.Kind = "Bool" -> [set |-> FALSE, v |-> FALSE]
      [] field.IsOptional /\ field.Kind \in {"String", "Bytes"} -> [set |-> FALSE, v |-> <<>>]
      [] field.IsOptional -> [set |-> FALSE, v |-> Zeros(KindWidth(field.Kind))]
      [] field.Kind = "Bool" -> FALSE
      [] field.Kind \in {"String", "Bytes"} -> <<>>
      [] OTHER -> Zeros(KindWidth(field.Kind))

\* if err == nil { m.X = append(m.X, item) }
AppendItem(old, r) == IF r.err THEN Fail ELSE Ok(r.b, Append(old, r.v))

\* time.UnixMilli(int64(raw)) or time.Unix(int64(raw), 0)
goTimestampFromValue(raw, unit) ==
    IF unit = "milliseconds" THEN UnixMilliTime(IntOf(raw))
    ELSE UnixMilliTime(IntOf(raw) * 1000)

\* if err == nil { m.X = <time of raw> }, behind a pointer for an optional
\* field.
TimeOfRaw(field, r) ==
    IF r.err THEN Fail
    ELSE Ok(r.b, IF field.IsOptional
                 THEN [set |-> TRUE, v |-> goTimestampFromValue(r.v, field.TimestampUnit)]
                 ELSE goTimestampFromValue(r.v, field.TimestampUnit))

\* time.Second, in nanoseconds.
Billion == 1000 * 1000 * 1000

\* time.Unix(seconds, int64(nanos)), which carries nanos outside
\* [0, 999999999] into the seconds.
TimeUnix(seconds, nanos) ==
    IF nanos >= 0 /\ nanos < Billion THEN [sec |-> seconds, nsec |-> nanos]
    ELSE [sec |-> IntBytes(IntOf(seconds) + (nanos \div Billion), 8),
          nsec |-> nanos % Billion]

\* time.Duration(seconds)*time.Second + time.Duration(nanos) as the
\* quotient and remainder by time.Second of the sum, n the nanos below one
\* second in size.
DurationSum(seconds, n) ==
    IF seconds > 0 /\ n < 0 THEN [s |-> seconds - 1, n |-> n + Billion]
    ELSE IF seconds < 0 /\ n > 0 THEN [s |-> seconds + 1, n |-> n - Billion]
    ELSE [s |-> seconds, n |-> n]

DurationOf(seconds, nanos) ==
    IF nanos >= 0
    THEN DurationSum(IntOf(seconds) + (nanos \div Billion), nanos % Billion)
    ELSE DurationSum(IntOf(seconds) - ((-nanos) \div Billion), -((-nanos) % Billion))

RECURSIVE DecodeSecondsNanos(_, _, _)
RECURSIVE SecondsNanosTag(_, _, _)
RECURSIVE SecondsNanosCase(_, _, _, _)
\* The loop "for len(b) > 0" both DecodeTimestamp and DecodeDuration run:
\* [err, b, v] with v = [seconds, nanos] when b is used up.
DecodeSecondsNanos(b, seconds, nanos) ==
    IF Len(b) = 0 THEN Ok(<<>>, [seconds |-> seconds, nanos |-> nanos])
    ELSE SecondsNanosTag(ConsumeTag(b), seconds, nanos)

\* The switch on the field number after ConsumeTag.
SecondsNanosTag(t, seconds, nanos) ==
    IF t.err THEN Fail
    ELSE SecondsNanosCase(t.num,
            CASE t.num = 1 -> Consume("ConsumeVarInt64", t.b, t.typ)
              [] t.num = 2 -> Consume("ConsumeVarInt32", t.b, t.typ)
              [] OTHER -> SkipFieldValue(t.b, t.num, t.typ),
            seconds, nanos)

\* if err != nil { return ..., err }, then the next turn of the loop.
SecondsNanosCase(num, r, seconds, nanos) ==
    IF r.err THEN Fail
    ELSE DecodeSecondsNanos(r.b, IF num = 1 THEN r.v ELSE seconds,
                                 IF num = 2 THEN r.v ELSE nanos)

\* return time.Unix(seconds, int64(nanos)), nil
TimeOfSecondsNanos(d) ==
    IF d.err THEN Fail ELSE Ok(<<>>, TimeUnix(d.v.seconds, IntOf(d.v.nanos)))

\* func DecodeTimestamp(b []byte) (time.Time, error)
DecodeTimestamp(b) == TimeOfSecondsNanos(DecodeSecondsNanos(b, Zeros(8), Zeros(4)))

DurationOfSecondsNanos(d) ==
    IF d.err THEN Fail ELSE Ok(<<>>, DurationOf(d.v.seconds, IntOf(d.v.nanos)))

\* func DecodeDuration(b []byte) (time.Duration, error)
DecodeDuration(b) == DurationOfSecondsNanos(DecodeSecondsNanos(b, Zeros(8), Zeros(4)))

\* return b, msg, nil after msg, err := Decode...(msgBytes)
ConsumedWkt(r, d) == IF d.err THEN Fail ELSE Ok(r.b, d.v)

\* ConsumeTimestamp(b, typ), r the ConsumeMessage it starts with.
ConsumeTimestamp(r) == IF r.err THEN Fail ELSE ConsumedWkt(r, DecodeTimestamp(r.v))

\* ConsumeDuration(b, typ), r the ConsumeMessage it starts with.
ConsumeDuration(r) == IF r.err THEN Fail ELSE ConsumedWkt(r, DecodeDuration(r.v))

\* The lines of goDecodeTimestamp for a field whose unit is "wkt".
goDecodeTimestampWkt(field, old, b, typ) ==
    IF field.IsRepeated THEN AppendItem(old, ConsumeTimestamp(ConsumeMessage(b, typ)))
    ELSE IF field.IsOptional THEN Pointer(ConsumeTimestamp(ConsumeMessage(b, typ)))
    ELSE ConsumeTimestamp(ConsumeMessage(b, typ))

goDecodeDuration(field, old, b, typ) ==
    IF field.IsRepeated THEN AppendItem(old, ConsumeDuration(ConsumeMessage(b, typ)))
    ELSE IF field.IsOptional THEN Pointer(ConsumeDuration(ConsumeMessage(b, typ)))
    ELSE ConsumeDuration(ConsumeMessage(b, typ))

\* The lines of goDecodeTimestamp; for a unit other than "wkt", those of a
\* singular field.
goDecodeTimestamp(field, old, b, typ) ==
    IF field.TimestampUnit = "wkt" THEN goDecodeTimestampWkt(field, old, b, typ)
    ELSE TimeOfRaw(field, Consume(goConsumeFunc(field.Kind), b, typ))

\* The case of the switch for a declared field: [err, b, v] with v the new
\* value of m.X given its old value.
RECURSIVE GoDecode(_, _)
\* msg, err := decodeFunc(msgBytes) of ConsumeMessageDecorator: the pointer
\* Decode<T> returns.
DecodedMessage(r, d) ==
    IF d.err THEN Fail ELSE Ok(r.b, [set |-> TRUE, v |-> d.m])

\* ConsumeMessageDecorator(Decode<T>)(b, typ), r the ConsumeMessage before it.
ConsumeMessageDecorator(fields, r) ==
    IF r.err THEN Fail ELSE DecodedMessage(r, GoDecode(fields, r.v))

\* The consume function goConsumeMapValueFunc names, applied to (b, typ).
ConsumeMapValue(field, b, typ) ==
    CASE field.MapValueKind = "Message" ->
            ConsumeMessageDecorator(MessageIndex(field.MapValueMessage),
                                    ConsumeMessage(b, typ))
      [] field.MapValueKind = "Bytes" -> Consume("ConsumeBytes", b, typ)
      [] OTHER -> Consume(goConsumeFunc(field.MapValueKind), b, typ)

\* var key K; var value V
ZeroMapPart(kind) ==
    CASE kind = "Message" -> [set |-> FALSE, v |-> <<>>]
      [] kind = "Bool" -> FALSE
      [] kind \in {"String", "Bytes"} -> <<>>
      [] OTHER -> Zeros(KindWidth(kind))

\* m[key] = value
MapPut(old, key, value) == {e \in old : e[1] # key} \cup {<<key, value>>}

RECURSIVE MapEntryLoop(_, _, _, _)
RECURSIVE MapEntryTag(_, _, _, _)
RECURSIVE MapEntryCheck(_, _, _, _, _)
\* The loop "for len(entryBytes) > 0" of ConsumeMapEntry: [err, key, value].
MapEntryLoop(field, entryBytes, key, value) ==
    IF Len(entryBytes) = 0 THEN [err |-> FALSE, key |-> key, value |-> value]
    ELSE MapEntryTag(field, key, value, ConsumeTag(entryBytes))

MapEntryTag(field, key, value, t) ==
    IF t.err THEN [err |-> TRUE, key |-> key, value |-> value]
    ELSE MapEntryCheck(field, key, value, t.num,
            CASE t.num = 1 -> Consume(goConsumeFunc(field.MapKeyKind), t.b, t.typ)
              [] t.num = 2 -> ConsumeMapValue(field, t.b, t.typ)
              [] OTHER -> SkipFieldValue(t.b, t.num, t.typ))

MapEntryCheck(field, key, value, num, r) ==
    IF r.err THEN [err |-> TRUE, key |-> key, value |-> value]
    ELSE MapEntryLoop(field, r.b,
                      IF num = 1 THEN r.v ELSE key,
                      IF num = 2 THEN r.v ELSE value)

\* The end of ConsumeMapEntry: m[key] = value; return b, nil.
MapEntryDone(old, r, e) ==
    IF e.err THEN Fail ELSE Ok(r.b, MapPut(old, e.key, e.value))

\* ConsumeMapEntry(b, typ, m, consumeK, consumeV), r the ConsumeMessage that
\* follows its test of the wire type.
ConsumeMapEntry(field, old, r) ==
    IF r.err THEN Fail
    ELSE MapEntryDone(old, r,
            MapEntryLoop(field, r.v, ZeroMapPart(field.MapKeyKind),
                         ZeroMapPart(field.MapValueKind)))

\* if m.X == nil { m.X = make(...) }; b, err = ConsumeMapEntry(b, typ, m.X, ...)
goDecodeMap(field, old, b, typ) ==
    IF typ # BytesType THEN Fail
    ELSE ConsumeMapEntry(field, old, ConsumeMessage(b, typ))

buildGoDecodeCases(field, old, b, typ) ==
    CASE field.IsTimestamp -> goDecodeTimestamp(field, old, b, typ)
      [] field.IsDuration -> goDecodeDuration(field, old, b, typ)
      [] field.IsMap -> goDecodeMap(field, old, b, typ)
      [] field.IsRepeated /\ field.IsPacked /\ isGoPackable(field.Kind) ->
            ConsumeRepeatedCompact(b, typ, goWireType(field.Kind), goConsumeFunc(field.Kind))
      [] field.IsRepeated ->
            AppendItem(old, ConsumeRepeatedElement(b, typ, goConsumeFunc(field.Kind)))
      [] field.Kind = "Message" ->
            ConsumeMessageDecorator(MessageIndex(MessageFullName(field)),
                                    ConsumeMessage(b, typ))
      [] field.IsOptional -> goDecodeOptionalScalar(field, b, typ)
      [] OTHER -> goDecodeScalar(field, b, typ)

NoMessage == [err |-> TRUE, m |-> <<>>]

\* The index of the field a case of the switch is generated for, 0 for the
\* default case.
CaseOf(msg, num) ==
    IF \E i \in 1..Len(msg) : msg[i].Number = num
    THEN CHOOSE i \in 1..Len(msg) : msg[i].Number = num
    ELSE 0

\* The switch with a default case that rejects the field.
GoDecodeSwitchStrict(msg, m, i, t) ==
    IF i = 0 THEN Fail
    ELSE buildGoDecodeCases(msg[i], m[i], t.b, t.typ)

\* switch num { case N: ...; default: b, err = SkipFieldValue(b, num, typ) }
GoDecodeSwitch(msg, m, i, t) ==
    IF i = 0 THEN SkipFieldValue(t.b, t.num, t.typ)
    ELSE buildGoDecodeCases(msg[i], m[i], t.b, t.typ)

RECURSIVE GoDecodeLoop(_, _, _)
RECURSIVE GoDecodeTag(_, _, _)
RECURSIVE GoDecodeCheck(_, _, _, _)
\* for len(b) > 0 { b, num, typ, err = ConsumeTag(b); ... }; return &m, nil
GoDecodeLoop(msg, b, m) ==
    IF Len(b) = 0 THEN [err |-> FALSE, m |-> m]
    ELSE GoDecodeTag(msg, m, ConsumeTag(b))

\* if err != nil { return nil, err } after ConsumeTag, then the switch.
GoDecodeTag(msg, m, t) ==
    IF t.err THEN NoMessage
    ELSE GoDecodeCheck(msg, m, CaseOf(msg, t.num), GoDecodeSwitch(msg, m, CaseOf(msg, t.num), t))

\* if err != nil { return nil, err } after the switch, then the next turn.
GoDecodeCheck(msg, m, i, r) ==
    IF r.err THEN NoMessage
    ELSE GoDecodeLoop(msg, r.b, IF i = 0 THEN m ELSE [m EXCEPT ![i] = r.v])

\* func Decode<T>(b []byte) (*T, error)
GoDecode(msg, b) == GoDecodeLoop(msg, b, [i \in 1..Len(msg) |-> GoZeroValue(msg[i])])

(***************************************************************************)
(* protobufjs/minimal, the Writer and Reader the generated JS calls, and   *)
(* the Timestamp/Duration writers of the JS runtime template.  A JS number *)
(* holding an integer is the same byte sequence as the Go value; a Date, a *)
(* millisecond number and a bigint surfacing one instant are all given by  *)
(* the instant's milliseconds.                                             *)
(***************************************************************************)
JsWrite(method, b, v) ==
    CASE method = "bool" -> AppendVarint(b, NatBytes(IF v THEN 1 ELSE 0, 8))
      [] method = "int32" -> AppendVarint(b, SignExtend(v))
      [] method = "uint32" -> AppendVarint(b, ZeroExtend(v))
      [] method = "sint32" -> AppendVarint(b, EncodeZigZag(SignExtend(v)))
      [] method \in {"int64", "uint64"} -> AppendVarint(b, v)
      [] method = "sint64" -> AppendVarint(b, EncodeZigZag(v))
      [] method \in {"fixed32", "sfixed32", "float"} -> AppendFixed32(b, v)
      [] method \in {"fixed64", "sfixed64", "double"} -> AppendFixed64(b, v)
      [] method \in {"string", "bytes"} -> AppendBytes(b, v)

\* writeTimestamp / writeTimestampFromMillis / writeTimestampFromBigInt and
\* the Duration writers: the sub-message {1: seconds, 2: nanos} of the
\* instant or span of ms milliseconds.
JsWriteSecondsNanos(b, ms) ==
    LET seconds == ms \div 1000
        nanos == (ms % 1000) * 1000000
        b1 == AppendVarint(AppendTag(b, 1, VarintType), IntBytes(seconds, 8))
    IN  IF nanos # 0
        THEN AppendVarint(AppendTag(b1, 2, VarintType), SignExtend(IntBytes(nanos, 4)))
        ELSE b1

\* The conversion reader.<method>() applies to the raw value it read.
JsReadConvert(method, r) ==
    IF r.err THEN Fail
    ELSE CASE method = "bool" -> Ok(r.b, ~IsZero(Truncate32(r.v)))
           [] method \in {"int32", "uint32"} -> Ok(r.b, Truncate32(r.v))
           [] method = "sint32" -> Ok(r.b, DecodeZigZag(Truncate32(r.v)))
           [] method = "sint64" -> Ok(r.b, DecodeZigZag(r.v))
           [] OTHER -> r

\* reader.<method>(): [err, b, v].  The reader does not look at the wire
\* type of the tag; reading past the end throws.
JsRead(method, b) ==
    JsReadConvert(method,
        CASE method \in {"fixed32", "sfixed32", "float"} -> Consumed(ConsumeFixed(b, 4), b, TRUE)
          [] method \in {"fixed64", "sfixed64", "double"} -> Consumed(ConsumeFixed(b, 8), b, TRUE)
          [] method \in {"string", "bytes"} -> Consumed(ProtowireConsumeBytes(b), b, TRUE)
          [] OTHER -> Consumed(ConsumeVarint(b), b, TRUE))

\* reader.skipType(wireType): [err, b].
JsSkipType(b, wireType) ==
    Skipped(CASE wireType = 0 -> JsRead("uint64", b)
              [] wireType = 1 -> JsRead("fixed64", b)
              [] wireType = 2 -> JsRead("bytes", b)
              [] wireType = 5 -> JsRead("fixed32", b)
              [] OTHER -> Fail)

(***************************************************************************)
(* The JS emitter (internal/generate/js), encoding side.                   *)
(***************************************************************************)
\* jsWireType with Float written as a varint.
jsWireTypeFloatAsVarint(kind) ==
    CASE kind \in {"String", "Bytes", "Message"} -> BytesType
      [] kind \in {"Fixed32", "Sfixed32"} -> Fixed32Type
      [] kind \in {"Fixed64", "Sfixed64", "Double"} -> Fixed64Type
      [] OTHER -> VarintType

jsWireType(kind) ==
    CASE kind \in {"String", "Bytes", "Message"} -> BytesType
      [] kind \in {"Fixed32", "Sfixed32", "Float"} -> Fixed32Type
      [] kind \in {"Fixed64", "Sfixed64", "Double"} -> Fixed64Type
      [] OTHER -> VarintType

jsWriterMethod(kind) ==
    CASE kind = "Bool" -> "bool"
      [] kind = "Int32" -> "int32"
      [] kind = "Int64" -> "int64"
      [] kind = "Uint32" -> "uint32"
      [] kind = "Uint64" -> "uint64"
      [] kind = "Sint32" -> "sint32"
      [] kind = "Sint64" -> "sint64"
      [] kind = "Fixed32" -> "fixed32"
      [] kind = "Fixed64" -> "fixed64"
      [] kind = "Sfixed32" -> "sfixed32"
      [] kind = "Sfixed64" -> "sfixed64"
      [] kind = "Float" -> "float"
      [] kind = "Double" -> "double"
      [] kind = "String" -> "string"
      [] kind = "Bytes" -> "bytes"
      [] kind = "Enum" -> "int32"
      [] OTHER -> "int32"

jsIsPackable(kind) == kind \notin {"String", "Bytes", "Message"}

\* x !== 0 for the JS value x of a numeric field (a float's -0 equals 0).
JsNonZero(field, v) ==
    IF field.Kind \in {"Float", "Double"} THEN ~FloatIsZero(v)
    ELSE IF field.Kind = "Message" THEN v # 0
    ELSE ~IsZero(v)

\* A presence check that tests for undefined and null only.
jsPresenceCheckDefined(field, v) ==
    IF field.IsOptional THEN v.set ELSE TRUE

\* The condition guarding the write of a singular field.
jsPresenceCheck(field, v) ==
    IF field.IsOptional THEN v.set
    ELSE IF field.JSType = "bigint" THEN JsNonZero(field, v)
    ELSE IF field.JSType = "number" THEN JsNonZero(field, v)
    ELSE IF field.Kind = "Message" THEN TRUE
    ELSE IF field.IsTimestamp THEN TRUE
    ELSE IF field.IsDuration THEN JsNonZero(field, v)
    ELSE CASE field.Kind = "String" -> v # <<>>
           [] field.Kind = "Bytes" -> Len(v) > 0
           [] field.Kind = "Bool" -> v = TRUE
           [] OTHER -> JsNonZero(field, v)

\* writer.uint32(tag(N, WIRE.LDELIM)).fork(); write...(x, writer); writer.ldelim()
JsForkLdelim(b, num, payload) == AppendBytes(AppendTag(b, num, BytesType), payload)

jsEncodeNativeField(field, b, v) ==
    IF field.IsTimestamp \/ field.IsDuration
    THEN JsForkLdelim(b, field.Number, JsWriteSecondsNanos(<<>>, v))
    ELSE CASE field.Kind = "Int32" ->
                JsWrite("int32", AppendTag(b, field.Number, VarintType), v)
           [] field.Kind = "Int64" ->
                JsWrite("int64", AppendTag(b, field.Number, VarintType), v)

jsEncodeField(field, b, v) ==
    IF field.JSType # "" THEN jsEncodeNativeField(field, b, v)
    ELSE IF field.IsTimestamp \/ field.IsDuration
    THEN JsForkLdelim(b, field.Number, JsWriteSecondsNanos(<<>>, v))
    ELSE JsWrite(jsWriterMethod(field.Kind),
                 AppendTag(b, field.Number, jsWireType(field.Kind)), v)

RECURSIVE JsWriteItems(_, _, _)
JsWriteItems(field, b, items) ==
    IF items = <<>> THEN b
    ELSE JsWriteItems(field, jsEncodeField(field, b, Head(items)), Tail(items))

RECURSIVE JsPackItems(_, _, _)
JsPackItems(method, b, items) ==
    IF items = <<>> THEN b
    ELSE JsPackItems(method, JsWrite(method, b, Head(items)), Tail(items))

\* The statements one field contributes to write<T>(message, writer).
RECURSIVE buildEncodeFunc(_, _)
\* The condition jsMapValuePresence puts before the write of a scalar value.
jsMapValuePresence(kind, value) ==
    CASE kind = "String" -> value # <<>>
      [] kind = "Bool" -> value = TRUE
      [] OTHER -> ~IsZero(value)

\* The statements of jsEncodeMapValue: the value of an entry, written into
\* the entry's fork as field 2.
jsEncodeMapValue(field, b, value) ==
    CASE field.MapValueKind = "Message" ->
            JsForkLdelim(b, 2, buildEncodeFunc(MessageIndex(field.MapValueMessage), value.v))
      [] field.MapValueKind = "Bytes" ->
            IF Len(value) > 0 THEN JsWrite("bytes", AppendTag(b, 2, BytesType), value) ELSE b
      [] OTHER ->
            IF jsMapValuePresence(field.MapValueKind, value)
            THEN JsWrite(jsWriterMethod(field.MapValueKind),
                         AppendTag(b, 2, jsWireType(field.MapValueKind)), value)
            ELSE b

RECURSIVE JsWriteMap(_, _, _)
\* for (const [rawKey, value] of Object.entries(message.f)) { ... }: a fork
\* tagged LDELIM per entry, the key written as field 1 without a presence
\* check, then the value.  pairs are the entries in the order of the
\* object, each key the value its key cast yields.
JsWriteMap(field, b, pairs) ==
    IF pairs = <<>> THEN b
    ELSE JsWriteMap(field,
            JsForkLdelim(b, field.Number,
                jsEncodeMapValue(field,
                    JsWrite(jsWriterMethod(field.MapKeyKind),
                            AppendTag(<<>>, 1, jsWireType(field.MapKeyKind)),
                            Head(pairs)[1]),
                    Head(pairs)[2])),
            Tail(pairs))

buildWriteFunc(field, b, v) ==
    IF field.IsMap THEN JsWriteMap(field, b, v)
    ELSE IF field.IsRepeated
    THEN IF field.IsPacked /\ jsIsPackable(field.Kind)
         THEN LET packed == JsPackItems(jsWriterMethod(field.Kind), <<>>, v)
              IN  IF Len(packed) > 0
                  THEN AppendBytes(AppendTag(b, field.Number, BytesType), packed)
                  ELSE b
         ELSE JsWriteItems(field, b, v)
    ELSE IF jsPresenceCheck(field, v)
         THEN jsEncodeField(field, b, IF field.IsOptional THEN v.v ELSE v)
         ELSE b

RECURSIVE JsEncodePrefix(_, _, _)
JsEncodePrefix(msg, m, k) ==
    IF k = 0 THEN <<>>
    ELSE buildWriteFunc(msg[k], JsEncodePrefix(msg, m, k - 1), m[k])

\* export function encode<T>(message)
buildEncodeFunc(msg, m) == JsEncodePrefix(msg, m, Len(msg))

(***************************************************************************)
(* The JS emitter, decoding side.                                          *)
(***************************************************************************)
jsReaderMethod(kind) ==
    CASE kind = "Bool" -> "bool"
      [] kind = "Int32" -> "int32"
      [] kind = "Int64" -> "int64"
      [] kind = "Uint32" -> "uint32"
      [] kind = "Uint64" -> "uint64"
      [] kind = "Sint32" -> "sint32"
      [] kind = "Sint64" -> "sint64"
      [] kind = "Fixed32" -> "fixed32"
      [] kind = "Fixed64" -> "fixed64"
      [] kind = "Sfixed32" -> "sfixed32"
      [] kind = "Sfixed64" -> "sfixed64"
      [] kind = "Float" -> "float"
      [] kind = "Double" -> "double"
      [] kind = "String" -> "string"
      [] kind = "Bytes" -> "bytes"
      [] kind = "Enum" -> "int32"
      [] OTHER -> "int32"

\* The initial value of the field in "const message = {...}"; undefined is
\* the unset record, new Date(0) the instant of 0 milliseconds and the 0
\* of a Duration the span of 0 milliseconds.
jsDefaultValue(field) ==
    LET zero == CASE field.IsTimestamp \/ field.IsDuration -> 0
                  [] field.Kind = "Bool" -> FALSE
                  [] field.Kind \in {"String", "Bytes"} -> <<>>
                  [] OTHER -> Zeros(KindWidth(field.Kind))
    IN  IF field.IsMap THEN {}
        ELSE IF field.IsRepeated THEN <<>>
        ELSE IF field.IsOptional THEN [set |-> FALSE, v |-> zero]
        ELSE IF field.Kind = "Message" /\ ~field.IsTimestamp /\ ~field.IsDuration
        THEN [set |-> FALSE, v |-> <<>>]
        ELSE zero

RECURSIVE JsPackedLoop(_, _, _, _)
RECURSIVE JsPackedPush(_, _, _, _, _)
\* while (reader.pos < end2) { items.push(reader.<method>()) }, with left the
\* distance from reader.pos to end2.
JsPackedLoop(method, b, left, items) ==
    IF left <= 0 THEN Ok(b, items)
    ELSE JsPackedPush(method, b, left, items, JsRead(method, b))

JsPackedPush(method, b, left, items, r) ==
    IF r.err THEN Fail
    ELSE JsPackedLoop(method, r.b, left - (Len(b) - Len(r.b)), Append(items, r.v))

\* const end2 = reader.uint32() + reader.pos, h the result of reader.uint32().
JsPackedBlock(field, old, h) ==
    IF h.err THEN Fail
    ELSE IF h.v[4] # 0 THEN Fail
    ELSE JsPackedLoop(jsReaderMethod(field.Kind), h.b,
                      h.v[1] + 256 * h.v[2] + 65536 * h.v[3], old)

jsDecodePackedField(field, old, b, typ) ==
    IF typ = BytesType
    THEN JsPackedBlock(field, old, JsRead("uint32", b))
    ELSE AppendItem(old, JsRead(jsReaderMethod(field.Kind), b))

\* jsDecodeNativeField for an int32 or int64 field with a js_type override:
\* a repeated int64 that is packed branches on the wire type, a repeated
\* int32 pushes one reader.int32() whatever the wire type.
jsDecodeNativeField(field, old, b, typ) ==
    IF field.IsRepeated
    THEN IF field.Kind = "Int64"
         THEN IF field.IsPacked
              THEN IF typ = BytesType
                   THEN JsPackedBlock(field, old, JsRead("uint32", b))
                   ELSE AppendItem(old, JsRead("int64", b))
              ELSE AppendItem(old, JsRead("int64", b))
         ELSE AppendItem(old, JsRead("int32", b))
    ELSE IF field.IsOptional THEN Pointer(JsRead(jsReaderMethod(field.Kind), b))
    ELSE JsRead(jsReaderMethod(field.Kind), b)

\* decode<T>Message(reader, length), h the reader.uint32() that gives the
\* length: [err, b, v].
RECURSIVE decodeMessage(_, _)

\* The statements of "case N:": [err, b, v] with v the field's new value.
jsDecodeField(field, old, b, typ) ==
    IF field.JSType # "" THEN jsDecodeNativeField(field, old, b, typ)
    ELSE IF field.IsRepeated
    THEN IF field.IsPacked /\ jsIsPackable(field.Kind)
         THEN jsDecodePackedField(field, old, b, typ)
         ELSE AppendItem(old, JsRead(jsReaderMethod(field.Kind), b))
    ELSE IF field.Kind = "Message"
    THEN Pointer(decodeMessage(MessageIndex(MessageFullName(field)), JsRead("uint32", b)))
    ELSE IF field.IsOptional THEN Pointer(JsRead(jsReaderMethod(field.Kind), b))
    ELSE JsRead(jsReaderMethod(field.Kind), b)

\* [err, b, num, typ]: const tag = reader.uint32(); tag >>> 3; tag & 7
JsTag(t) ==
    IF t.err THEN [err |-> TRUE, b |-> <<>>, num |-> 0, typ |-> 0]
    ELSE [err |-> FALSE, b |-> t.b,
          num |-> FieldNumber(t.v \o Zeros(4)),
          typ |-> t.v[1] % 8]

\* switch (tag >>> 3) { case N: ...; default: reader.skipType(tag & 7) }
JsDecodeSwitch(msg, m, i, t) ==
    IF i = 0 THEN JsSkipType(t.b, t.typ)
    ELSE jsDecodeField(msg[i], m[i], t.b, t.typ)

RECURSIVE JsDecodeLoop(_, _, _)
RECURSIVE JsDecodeTag(_, _, _)
RECURSIVE JsDecodeCheck(_, _, _, _)
\* while (reader.pos < end) { ... }; return message.  A throw is err.
JsDecodeLoop(msg, b, m) ==
    IF Len(b) = 0 THEN [err |-> FALSE, m |-> m]
    ELSE JsDecodeTag(msg, m, JsTag(JsRead("uint32", b)))

JsDecodeTag(msg, m, t) ==
    IF t.err THEN NoMessage
    ELSE JsDecodeCheck(msg, m, CaseOf(msg, t.num), JsDecodeSwitch(msg, m, CaseOf(msg, t.num), t))

JsDecodeCheck(msg, m, i, r) ==
    IF r.err THEN NoMessage
    ELSE JsDecodeLoop(msg, r.b, IF i = 0 THEN m ELSE [m EXCEPT ![i] = r.v])

RECURSIVE JsMessageLoop(_, _, _, _)
RECURSIVE JsMessageTag(_, _, _, _, _)
RECURSIVE JsMessageCheck(_, _, _, _, _, _)
\* const end = reader.pos + length; while (reader.pos < end) { ... };
\* return message, with left the distance from reader.pos to end and b
\* the buffer from reader.pos on.
JsMessageLoop(msg, b, left, m) ==
    IF left <= 0 THEN Ok(b, m)
    ELSE JsMessageTag(msg, b, left, m, JsTag(JsRead("uint32", b)))

JsMessageTag(msg, b, left, m, t) ==
    IF t.err THEN Fail
    ELSE JsMessageCheck(msg, b, left, m, CaseOf(msg, t.num),
                        JsDecodeSwitch(msg, m, CaseOf(msg, t.num), t))

JsMessageCheck(msg, b, left, m, i, r) ==
    IF r.err THEN Fail
    ELSE JsMessageLoop(msg, r.b, left - (Len(b) - Len(r.b)),
                       IF i = 0 THEN m ELSE [m EXCEPT ![i] = r.v])

decodeMessage(msg, h) ==
    IF h.err THEN Fail
    ELSE IF h.v[4] # 0 THEN Fail
    ELSE JsMessageLoop(msg, h.b, h.v[1] + 256 * h.v[2] + 65536 * h.v[3],
                       [i \in 1..Len(msg) |-> jsDefaultValue(msg[i])])

\* export function decode<T>(buffer)
buildDecodeMessageFunc(msg, b) ==
    JsDecodeLoop(msg, b, [i \in 1..Len(msg) |-> jsDefaultValue(msg[i])])

(***************************************************************************)
(* The parser (internal/parser): the checks of a field's native-type       *)
(* overrides made while a descriptor is lowered to the IR.                 *)
(***************************************************************************)
isSupportedGoType(kind, msgName, goType) ==
    CASE goType = "time.Time" ->
            (kind = "Message" /\ msgName = "google.protobuf.Timestamp")
            \/ kind = "Int32" \/ kind = "Int64"
      [] goType = "time.Duration" ->
            (kind = "Message" /\ msgName = "google.protobuf.Duration")
            \/ kind = "Int32" \/ kind = "Int64"
      [] goType = "github.com/google/uuid.UUID" -> kind = "Bytes"
      [] OTHER -> FALSE

\* isSupportedJSType without its test of the kind.
isSupportedJSTypeAnyKind(kind, msgName, jsType) ==
    jsType = "number" \/ jsType = "bigint"

isSupportedJSType(kind, msgName, jsType) ==
    IF jsType # "number" /\ jsType # "bigint" THEN FALSE
    ELSE IF kind = "Int32" \/ kind = "Int64" THEN TRUE
    ELSE IF kind = "Message" /\ (msgName = "google.protobuf.Timestamp"
                                 \/ msgName = "google.protobuf.Duration") THEN TRUE
    ELSE FALSE

\* The error validateNativeTypes returns, "" for nil.
validateNativeTypes(fullName, kind, msgName, goType, jsType, isMap) ==
    IF isMap /\ (goType # "" \/ jsType # "")
    THEN "cleanproto.go_type/js_type not supported on map fields: " \o fullName
    ELSE IF goType # "" /\ ~isSupportedGoType(kind, msgName, goType)
    THEN "unsupported cleanproto.go_type for " \o fullName
    ELSE IF jsType # "" /\ ~isSupportedJSType(kind, msgName, jsType)
    THEN "unsupported cleanproto.js_type for " \o fullName
    ELSE ""

NoField == [Name |-> ""]

\* The body of the loop of collectFields for the field descriptor d:
\* [err, field].
collectField(d) ==
    IF d.Oneof = "real"
    THEN [err |-> "oneof is not supported: " \o d.FullName, field |-> NoField]
    ELSE IF validateNativeTypes(d.FullName, d.Kind,
                                IF ~d.IsMap /\ d.Kind = "Message" THEN d.Message ELSE "",
                                d.GoType, d.JsType, d.IsMap) # ""
    THEN [err |-> validateNativeTypes(d.FullName, d.Kind,
                                IF ~d.IsMap /\ d.Kind = "Message" THEN d.Message ELSE "",
                                d.GoType, d.JsType, d.IsMap),
          field |-> NoField]
    ELSE [err |-> "",
          field |-> [Name |-> d.Name, Number |-> d.Number, Kind |-> d.Kind,
                     IsRepeated |-> d.IsList,
                     IsOptional |-> d.HasPresence /\ ~d.IsList /\ ~d.IsMap
                                    /\ d.Kind # "Message",
                     IsPacked |-> d.IsPacked,
                     IsMap |-> d.IsMap,
                     IsTimestamp |-> ~d.IsMap /\ d.Kind = "Message"
                                     /\ d.Message = "google.protobuf.Timestamp",
                     IsDuration |-> ~d.IsMap /\ d.Kind = "Message"
                                    /\ d.Message = "google.protobuf.Duration",
                     GoType |-> d.GoType, JSType |-> d.JsType,
                     MapKeyKind |-> IF d.IsMap THEN d.MapKey ELSE "",
                     MapValueKind |-> IF d.IsMap THEN d.MapValue ELSE "",
                     MapValueMessage |-> IF d.IsMap /\ d.MapValue = "Message"
                                         THEN d.MapValueMessage ELSE "",
                     MapValueEnum |-> IF d.IsMap /\ d.MapValue = "Enum"
                                      THEN d.MapValueEnum ELSE "",
                     MessageFullName |-> IF ~d.IsMap /\ d.Kind = "Message"
                                         THEN d.Message ELSE "",
                     EnumFullName |-> IF ~d.IsMap /\ d.Kind = "Enum"
                                      THEN d.Enum ELSE ""]]

RECURSIVE collectFields(_, _, _)
\* collectFields over the descriptors ds from the i-th on, fields those
\* collected so far: [err, fields].
collectFields(ds, i, fields) ==
    IF i > Len(ds) THEN [err |-> "", fields |-> fields]
    ELSE IF collectField(ds[i]).err # ""
    THEN [err |-> collectField(ds[i]).err, fields |-> <<>>]
    ELSE collectFields(ds, i + 1, Append(fields, collectField(ds[i]).field))

NoFile == [Path |-> ""]

\* fileToIR without its test of the syntax.
fileToIRAnySyntax(file) ==
    IF collectFields(file.Fields, 1, <<>>).err # ""
    THEN [err |-> collectFields(file.Fields, 1, <<>>).err, file |-> NoFile]
    ELSE [err |-> "",
          file |-> [Path |-> file.Path, Package |-> file.Package,
                    GoPackage |-> IF file.GoPackageOption = "" THEN file.Package
                                  ELSE file.GoPackageOption,
                    GoOut |-> file.GoOutOption, JsOut |-> file.JsOutOption,
                    Messages |-> <<[Name |-> file.MessageName,
                                    FullName |-> file.Package \o "." \o file.MessageName,
                                    Fields |-> collectFields(file.Fields, 1, <<>>).fields]>>]]

\* [err, file].  A file declares one message.
fileToIR(file) ==
    IF file.Syntax # "proto3"
    THEN [err |-> "only proto3 is supported: " \o file.Path, file |-> NoFile]
    ELSE IF collectFields(file.Fields, 1, <<>>).err # ""
    THEN [err |-> collectFields(file.Fields, 1, <<>>).err, file |-> NoFile]
    ELSE [err |-> "",
          file |-> [Path |-> file.Path, Package |-> file.Package,
                    GoPackage |-> IF file.GoPackageOption = "" THEN file.Package
                                  ELSE file.GoPackageOption,
                    GoOut |-> file.GoOutOption, JsOut |-> file.JsOutOption,
                    Messages |-> <<[Name |-> file.MessageName,
                                    FullName |-> file.Package \o "." \o file.MessageName,
                                    Fields |-> collectFields(file.Fields, 1, <<>>).fields]>>]]

(***************************************************************************)
(* Messages and values the codec is exercised on.                          *)
(***************************************************************************)
Field(num, kind, label, js) ==
    [Name |-> "f", Number |-> num, Kind |-> kind,
     IsRepeated |-> label \in {"packed", "repeated"},
     IsOptional |-> label = "optional",
     IsPacked |-> label = "packed",
     IsMap |-> FALSE, IsTimestamp |-> FALSE, IsDuration |-> FALSE,
     GoType |-> "", JSType |-> js,
     MapKeyKind |-> "", MapValueKind |-> "", MapValueMessage |-> ""]

\* A singular field of message type google.protobuf.Timestamp or Duration.
WktField(num, wkt, js) ==
    [Name |-> "f", Number |-> num, Kind |-> "Message",
     IsRepeated |-> FALSE, IsOptional |-> FALSE, IsPacked |-> FALSE,
     IsMap |-> FALSE, IsTimestamp |-> wkt = "Timestamp", IsDuration |-> wkt = "Duration",
     GoType |-> "", JSType |-> js,
     MapKeyKind |-> "", MapValueKind |-> "", MapValueMessage |-> ""]

IsWkt(field) == field.IsTimestamp \/ field.IsDuration

\* Values of a singular field of the kind: the default and two others.
ValuesOf(kind) ==
    CASE kind = "Bool" -> {FALSE, TRUE}
      [] kind = "String" -> {<<>>, <<104, 105>>}
      [] kind = "Bytes" -> {<<>>, <<0>>, <<8, 1>>}
      [] kind = "Float" -> {Zeros(4), <<0, 0, 0, 128>>, <<0, 0, 128, 63>>}
      [] kind = "Double" -> {Zeros(8), <<0, 0, 0, 0, 0, 0, 0, 128>>, <<0, 0, 0, 0, 0, 0, 240, 63>>}
      [] kind = "Message" -> {0, 1000, 1500}
      [] OTHER -> {Zeros(KindWidth(kind)), NatBytes(150, KindWidth(kind)),
                   IntBytes(-1, KindWidth(kind))}

\* Values of an element of a repeated field: the default and one other.
ItemsOf(kind) ==
    CASE kind = "Bool" -> {FALSE, TRUE}
      [] kind \in {"String", "Bytes"} -> {<<>>, <<104, 105>>}
      [] kind = "Double" -> {Zeros(8), <<0, 0, 0, 0, 0, 0, 240, 63>>}
      [] OTHER -> {Zeros(KindWidth(kind)), NatBytes(150, KindWidth(kind))}

ListsOf(kind) ==
    UNION {[1..n -> ItemsOf(kind)] : n \in 0..MaxListLen}

\* The keys and the values of the maps of the model: the default and one
\* other; for a message value the empty message and one other.
MapPartsOf(kind) ==
    CASE kind = "Message" -> {[set |-> TRUE, v |-> <<Zeros(4)>>],
                              [set |-> TRUE, v |-> <<NatBytes(1, 4)>>]}
      [] kind = "Bool" -> {FALSE, TRUE}
      [] kind \in {"String", "Bytes"} -> {<<>>, <<97>>}
      [] OTHER -> {Zeros(KindWidth(kind)), NatBytes(1, KindWidth(kind))}

MaxMapLen == 2

MapsOf(field) ==
    {m \in SUBSET (MapPartsOf(field.MapKeyKind) \X MapPartsOf(field.MapValueKind)) :
        /\ Cardinality(m) <= MaxMapLen
        /\ \A e1 \in m, e2 \in m : e1[1] = e2[1] => e1 = e2}

FieldValues(field) ==
    IF field.IsMap THEN MapsOf(field)
    ELSE IF field.IsRepeated THEN ListsOf(field.Kind)
    ELSE IF field.IsOptional
    THEN {[set |-> FALSE, v |-> GoZeroValue([field EXCEPT !.IsOptional = FALSE])]}
         \cup {[set |-> TRUE, v |-> x] : x \in ValuesOf(field.Kind)}
    ELSE ValuesOf(field.Kind)

SingleFieldSchemas ==
    {<<Field(1, k, l, "")>> : k \in ScalarKinds, l \in {"single", "optional", "repeated", "packed"}}

TwoFieldSchemas ==
    {<<Field(1, "Int32", "single", ""), Field(2, "String", "single", "")>>,
     <<Field(2, "Bytes", "single", ""), Field(1, "Sint64", "single", "")>>,
     <<Field(16, "Bool", "optional", ""), Field(3, "Int32", "packed", "")>>,
     <<Field(3, "Enum", "single", ""), Field(16, "String", "optional", "")>>}

NativeSchemas ==
    {<<WktField(1, w, js)>> : w \in {"Timestamp", "Duration"}, js \in {"", "number", "bigint"}}
    \cup {<<Field(1, k, l, js)>> : k \in {"Int32", "Int64"}, l \in {"single", "optional"},
                                   js \in {"number", "bigint"}}

\* map<keyKind, valueKind> f = num, with Inner as the value's message type.
MapField(num, keyKind, valueKind) ==
    [Field(num, "Message", "single", "")
        EXCEPT !.IsMap = TRUE, !.MapKeyKind = keyKind, !.MapValueKind = valueKind,
               !.MapValueMessage = IF valueKind = "Message" THEN "demo.Inner" ELSE ""]

MapSchemas ==
    {<<MapField(4, "String", "Int32")>>, <<MapField(4, "Int32", "String")>>,
     <<MapField(4, "String", "Bytes")>>, <<MapField(4, "Bool", "Enum")>>,
     <<MapField(4, "String", "Message")>>}

\* protowire.MaxValidNumber, the largest field number the compiler accepts.
MaxValidNumber == 536870911

\* Fields with the largest field number, one for each wire type, a packed
\* block and a map.
WideNumberSchemas ==
    {<<Field(MaxValidNumber, k, "single", "")>> : k \in {"Int32", "Float", "Double", "String"}}
    \cup {<<Field(MaxValidNumber, "Int32", "packed", "")>>,
          <<MapField(MaxValidNumber, "String", "Int32")>>}

Schemas ==
    {s \in SingleFieldSchemas : s[1].IsPacked => isGoPackable(s[1].Kind)}
    \cup TwoFieldSchemas \cup NativeSchemas \cup MapSchemas \cup WideNumberSchemas

MessagesOf(schema) ==
    IF Len(schema) = 1
    THEN {<<a>> : a \in FieldValues(schema[1])}
    ELSE {<<a, b>> : a \in FieldValues(schema[1]), b \in FieldValues(schema[2])}

\* A conforming peer's encoding of a field that writes a packed repeated
\* field one tagged element at a time; other fields as Encode writes them.
RECURSIVE PeerUnpackedItems(_, _, _)
PeerUnpackedItems(field, b, items) ==
    IF items = <<>> THEN b
    ELSE PeerUnpackedItems(field,
            AppendCompact(goAppendCompactHelperName(field.Kind),
                          AppendTag(b, field.Number, goWireType(field.Kind)), Head(items)),
            Tail(items))

PeerEncodeField(field, b, v) ==
    IF field.IsRepeated /\ field.IsPacked /\ isGoPackable(field.Kind)
    THEN PeerUnpackedItems(field, b, v)
    ELSE buildGoEncodeLines(field, b, v)

RECURSIVE PeerEncodePrefix(_, _, _)
PeerEncodePrefix(schema, m, k) ==
    IF k = 0 THEN <<>>
    ELSE PeerEncodeField(schema[k], PeerEncodePrefix(schema, m, k - 1), m[k])

\* Field records with numbers no schema of the model declares, one for each
\* wire type a record can carry.
UnknownRecords ==
    {AppendTag(<<>>, 9, VarintType) \o <<150, 1>>,
     AppendTag(<<>>, 100, Fixed32Type) \o <<8, 2, 3, 4>>,
     AppendTag(<<>>, 9, Fixed64Type) \o <<1, 2, 3, 4, 5, 6, 7, 8>>,
     AppendTag(<<>>, 100, BytesType) \o <<2, 8, 1>>}

(***************************************************************************)
(* The codec as a state machine: a value is encoded by the generated Go or *)
(* JS code (or by a peer), unknown records may join the bytes in flight,   *)
(* and the generated Go or JS decoder reads them.                          *)
(***************************************************************************)
MaxUnknown == 1

NoResult == [err |-> FALSE, m |-> <<>>]

NoPrior == [set |-> FALSE, b |-> <<>>]

HasWkt(schema) == \E i \in 1..Len(schema) : IsWkt(schema[i])

HasMap(schema) == \E i \in 1..Len(schema) : schema[i].IsMap

\* The orders in which a range statement can yield the entries of a map.
OrdersOf(m) ==
    {s \in [1..Cardinality(m) -> m] : \A i, j \in 1..Cardinality(m) : s[i] = s[j] => i = j}

\* The message as one run of Encode sees it: each map as the sequence of
\* its entries in the order of that run.  The schemas of the model with a
\* map field have no other field.
Iterations(schema, m) ==
    IF HasMap(schema) THEN {<<s>> : s \in OrdersOf(m[1])} ELSE {m}

HasJsType(schema) == \E i \in 1..Len(schema) : schema[i].JSType # ""

HasPacked(schema) ==
    \E i \in 1..Len(schema) :
        schema[i].IsRepeated /\ schema[i].IsPacked /\ isGoPackable(schema[i].Kind)

\* The parts of the model a specification leaves at rest.
IdleCodec ==
    /\ msgType = <<>> /\ msgValue = <<>>
    /\ wire = <<>> /\ clean = <<>> /\ cuts = <<0>>
    /\ unknown = 0
    /\ producer = "none" /\ decoder = "none"
    /\ result = NoResult /\ prior = NoPrior
    /\ pc = "idle"

NoNames == [done |-> FALSE]

IdleNames ==
    /\ names = <<>>
    /\ mangled = NoNames

IdleLower ==
    /\ fd = NoField
    /\ lowered = [done |-> FALSE, err |-> "", field |-> NoField]
    /\ IdleNames

NoParse == [done |-> FALSE, err |-> "", files |-> <<>>]

NoOutputs == [done |-> FALSE, err |-> "", out |-> <<>>]

IdleRun ==
    /\ inputs = <<>>
    /\ flags = [goOut |-> "", goPkg |-> "", jsOut |-> ""]
    /\ rpc = "idle"
    /\ idx = 1
    /\ acc = <<>>
    /\ util = [pkg |-> "", dir |-> ""]
    /\ seen = [parse |-> <<>>, go |-> <<>>, js |-> <<>>]
    /\ parseRet = NoParse
    /\ goRet = NoOutputs
    /\ jsRet = NoOutputs
    /\ disk = {}
    /\ exitErr = ""

InitCodec ==
    /\ IdleLower
    /\ IdleRun
    /\ msgType \in Schemas
    /\ msgValue \in MessagesOf(msgType)
    /\ wire = <<>>
    /\ clean = <<>>
    /\ cuts = <<0>>
    /\ unknown = 0
    /\ producer = "none"
    /\ decoder = "none"
    /\ result = NoResult
    /\ prior = NoPrior
    /\ pc = "new"

\* b := m.Encode() in Go.
Encode ==
    /\ pc = "new"
    /\ ~HasWkt(msgType)
    /\ \E it \in Iterations(msgType, msgValue) :
        /\ wire' = GoEncode(msgType, it)
        /\ cuts' = [k \in 1..(Len(msgType) + 1) |-> Len(GoEncodePrefix(msgType, it, k - 1))]
    /\ clean' = wire'
    /\ producer' = "go"
    /\ pc' = "encoded"
    /\ UNCHANGED <<msgType, msgValue, unknown, decoder, result, prior>>
    /\ UNCHANGED <<lowerVars, runVars>>

\* buffer := encode<T>(message) in JS.
JsEncode ==
    /\ pc = "new"
    /\ \E it \in Iterations(msgType, msgValue) :
        /\ wire' = buildEncodeFunc(msgType, it)
        /\ cuts' = [k \in 1..(Len(msgType) + 1) |-> Len(JsEncodePrefix(msgType, it, k - 1))]
    /\ clean' = wire'
    /\ producer' = "js"
    /\ pc' = "encoded"
    /\ UNCHANGED <<msgType, msgValue, unknown, decoder, result, prior>>
    /\ UNCHANGED <<lowerVars, runVars>>

\* A peer sends the value with its packed field written element by element.
PeerEncode ==
    /\ pc = "new"
    /\ ~HasWkt(msgType)
    /\ HasPacked(msgType)
    /\ wire' = PeerEncodePrefix(msgType, msgValue, Len(msgType))
    /\ clean' = wire'
    /\ cuts' = [k \in 1..(Len(msgType) + 1) |-> Len(PeerEncodePrefix(msgType, msgValue, k - 1))]
    /\ producer' = "peer"
    /\ pc' = "encoded"
    /\ UNCHANGED <<msgType, msgValue, unknown, decoder, result, prior>>
    /\ UNCHANGED <<lowerVars, runVars>>

\* A record of a field the message does not declare joins the stream at a
\* field boundary.
InjectUnknown ==
    /\ pc = "encoded"
    /\ unknown < MaxUnknown
    /\ \E j \in 1..Len(cuts), u \in UnknownRecords :
        /\ wire' = SubSeq(wire, 1, cuts[j]) \o u \o Drop(wire, cuts[j])
        /\ cuts' = [k \in 1..Len(cuts) |-> IF k > j THEN cuts[k] + Len(u) ELSE cuts[k]]
    /\ unknown' = unknown + 1
    /\ UNCHANGED <<msgType, msgValue, clean, producer, decoder, result, prior, pc>>
    /\ UNCHANGED <<lowerVars, runVars>>

\* m, err := Decode<T>(b) in Go.
Decode ==
    /\ pc = "encoded"
    /\ ~HasWkt(msgType)
    /\ result' = GoDecode(msgType, wire)
    /\ decoder' = "go"
    /\ pc' = "decoded"
    /\ UNCHANGED <<msgType, msgValue, wire, clean, cuts, unknown, producer, prior>>
    /\ UNCHANGED <<lowerVars, runVars>>

\* message := decode<T>(buffer) in JS.
JsDecode ==
    /\ pc = "encoded"
    /\ ~HasWkt(msgType)
    /\ ~HasMap(msgType)
    /\ result' = buildDecodeMessageFunc(msgType, wire)
    /\ decoder' = "js"
    /\ pc' = "decoded"
    /\ UNCHANGED <<msgType, msgValue, wire, clean, cuts, unknown, producer, prior>>
    /\ UNCHANGED <<lowerVars, runVars>>

\* The schema is edited between two runs of the generator: the js_type
\* override of a field is changed or removed, the value stays the same.
ChangeJsType ==
    /\ pc = "encoded"
    /\ producer = "js"
    /\ unknown = 0
    /\ ~prior.set
    /\ \E i \in 1..Len(msgType), js \in {"", "number", "bigint"} :
        /\ js # msgType[i].JSType
        /\ validateNativeTypes(msgType[i].Name, msgType[i].Kind, MessageFullName(msgType[i]),
                               msgType[i].GoType, js, msgType[i].IsMap) = ""
        /\ msgType' = [msgType EXCEPT ![i].JSType = js]
    /\ prior' = [set |-> TRUE, b |-> wire]
    /\ wire' = <<>>
    /\ clean' = <<>>
    /\ cuts' = <<0>>
    /\ producer' = "none"
    /\ pc' = "new"
    /\ UNCHANGED <<msgValue, unknown, decoder, result>>
    /\ UNCHANGED <<lowerVars, runVars>>

NextCodec ==
    \/ ChangeJsType
    \/ Encode
    \/ JsEncode
    \/ PeerEncode
    \/ InjectUnknown
    \/ Decode
    \/ JsDecode

SpecCodec == InitCodec /\ [][NextCodec]_vars

(***************************************************************************)
(* Properties of the codec.                                                *)
(***************************************************************************)
IntegerKinds ==
    {"Int32", "Int64", "Uint32", "Uint64", "Sint32", "Sint64",
     "Fixed32", "Fixed64", "Sfixed32", "Sfixed64"}

\* The default of a scalar kind: 0, false, the empty string, empty bytes.
DefaultOf(kind) ==
    CASE kind = "Bool" -> FALSE
      [] kind \in {"String", "Bytes"} -> <<>>
      [] OTHER -> Zeros(KindWidth(kind))

\* A singular field without presence of a scalar kind.
IsPlainScalar(field) ==
    ~field.IsRepeated /\ ~field.IsOptional /\ ~field.IsMap /\ field.Kind \in ScalarKinds

\* Field k of the message in flight contributed no bytes to the stream.
NoBytesFor(k) == cuts[k + 1] = cuts[k]

\* The message the decoder in use returns for the stream as it was encoded.
DecodeOfClean ==
    IF decoder = "go" THEN GoDecode(msgType, clean)
    ELSE buildDecodeMessageFunc(msgType, clean)

C1Message(schema) ==
    \A k \in 1..Len(schema) :
        /\ IsPlainScalar(schema[k])
        /\ schema[k].Kind \in IntegerKinds \cup {"Bool", "String", "Bytes", "Enum"}

\* C1: for a message of singular non-optional integer, bool, string, bytes
\* or enum fields, Go Decode(Encode(v)) returns v without error, and a field
\* holding its kind's default is omitted from the bytes.
C1_RoundTrip ==
    (pc = "decoded" /\ producer = "go" /\ decoder = "go" /\ unknown = 0
        /\ C1Message(msgType))
    => /\ ~result.err
       /\ result.m = msgValue
       /\ \A k \in 1..Len(msgType) :
            msgValue[k] = DefaultOf(msgType[k].Kind) => NoBytesFor(k)

\* A two-field message is decoded back with its first field written and its
\* second, a default, omitted.
C1_Witness ==
    /\ pc = "decoded" /\ producer = "go" /\ decoder = "go" /\ unknown = 0
    /\ C1Message(msgType)
    /\ Len(msgType) = 2
    /\ ~NoBytesFor(1)
    /\ msgValue[2] = DefaultOf(msgType[2].Kind)
    /\ NoBytesFor(2)
    /\ result.m = msgValue

\* C2: a singular field with explicit presence is written by both emitters
\* exactly when its value is set, a set value equal to the default included.
C2_WrittenIffSet ==
    (pc = "encoded" /\ producer \in {"go", "js"} /\ unknown = 0)
    => \A k \in 1..Len(msgType) :
            msgType[k].IsOptional => (msgValue[k].set <=> ~NoBytesFor(k))

\* C3: the Go decoder reads a packed repeated field without error and to the
\* same list whether it arrives as one packed block or as one tagged element
\* per value.
C3_BothEncodingsAccepted ==
    (pc = "decoded" /\ decoder = "go" /\ producer \in {"go", "peer"} /\ unknown = 0)
    => \A k \in 1..Len(msgType) :
            (msgType[k].IsRepeated /\ msgType[k].IsPacked /\ isGoPackable(msgType[k].Kind))
            => (~result.err /\ result.m[k] = msgValue[k])

\* C4: a singular field without presence that holds its scalar kind's default
\* (the bigint zero under js_type bigint included) contributes no bytes in
\* the Go and the JS emitter, and a message of such fields encodes to the
\* empty byte string.
C4_DefaultSuppressed ==
    (pc = "encoded" /\ producer \in {"go", "js"} /\ unknown = 0)
    => /\ \A k \in 1..Len(msgType) :
            (IsPlainScalar(msgType[k]) /\ msgValue[k] = DefaultOf(msgType[k].Kind))
            => NoBytesFor(k)
       /\ (\A k \in 1..Len(msgType) :
                IsPlainScalar(msgType[k]) /\ msgValue[k] = DefaultOf(msgType[k].Kind))
          => wire = <<>>

\* The JS emitter has encoded an int64 field surfaced as bigint that holds 0n.
C4_Witness ==
    /\ pc = "encoded" /\ producer = "js" /\ unknown = 0
    /\ Len(msgType) = 1
    /\ msgType[1].Kind = "Int64" /\ msgType[1].JSType = "bigint"
    /\ IsPlainScalar(msgType[1])
    /\ msgValue[1] = DefaultOf("Int64")
    /\ wire = <<>>

\* A packed repeated int32 with a js_type override: the JS decoder reads its
\* block as one element (see C21), with or without unknown records around it.
ReadsPackedAsElement(schema) ==
    \E k \in 1..Len(schema) :
        /\ schema[k].JSType # "" /\ schema[k].Kind = "Int32"
        /\ schema[k].IsRepeated /\ schema[k].IsPacked

C9_OverrideKeepsWire ==
    (pc = "encoded" /\ producer = "js" /\ unknown = 0 /\ prior.set)
    => wire = prior.b

(***************************************************************************)
(* Lowering of one field: collectFields applied to a field descriptor.     *)
(***************************************************************************)
Descriptor(kind, message, goType, jsType, isMap, oneof) ==
    [Name |-> "f", FullName |-> "demo.M.f", Number |-> 1,
     Kind |-> kind, Message |-> message,
     Enum |-> IF kind = "Enum" THEN "demo.Color" ELSE "",
     IsList |-> FALSE, IsPacked |-> FALSE, IsMap |-> isMap,
     Oneof |-> oneof,
     HasPresence |-> oneof # "none" \/ (kind = "Message" /\ ~isMap),
     GoType |-> goType, JsType |-> jsType,
     MapKey |-> IF isMap THEN "String" ELSE "",
     MapValue |-> IF isMap THEN "Int32" ELSE "",
     MapValueMessage |-> "", MapValueEnum |-> ""]

\* The descriptor of a field map<keyKind, valueKind>, valueMessage the full
\* name of the value's message type when valueKind is Message.
MapDescriptor(keyKind, valueKind, valueMessage) ==
    [Descriptor("Message", "demo.M.FEntry", "", "", TRUE, "none")
        EXCEPT !.MapKey = keyKind, !.MapValue = valueKind,
               !.MapValueMessage = valueMessage,
               !.MapValueEnum = IF valueKind = "Enum" THEN "demo.Color" ELSE ""]

GoTypeStrings ==
    {"", "time.Time", "time.Duration", "github.com/google/uuid.UUID", "string"}

JsTypeStrings == {"", "number", "bigint", "Date"}

FieldDescriptors ==
    {Descriptor(k, "", g, j, FALSE, o) :
        k \in ScalarKinds, g \in GoTypeStrings, j \in JsTypeStrings,
        o \in {"none", "synthetic", "real"}}
    \cup {Descriptor("Message", m, g, j, FALSE, o) :
        m \in {"google.protobuf.Timestamp", "google.protobuf.Duration", "demo.Other"},
        g \in GoTypeStrings, j \in JsTypeStrings, o \in {"none", "real"}}
    \cup {Descriptor("Message", "demo.M.FEntry", g, j, TRUE, "none") :
        g \in GoTypeStrings, j \in JsTypeStrings}
    \cup {MapDescriptor(k, "Message", "demo.Other") : k \in {"String", "Bool"}}
    \cup {MapDescriptor(k, "Enum", "") : k \in {"String", "Bool"}}

InitLower ==
    /\ IdleCodec
    /\ IdleRun
    /\ fd \in FieldDescriptors
    /\ lowered = [done |-> FALSE, err |-> "", field |-> NoField]
    /\ IdleNames

\* fields, err := collectFields(msg.Fields()) for a message of the one field.
Lower ==
    /\ ~lowered.done
    /\ fd # NoField
    /\ lowered' = [done |-> TRUE,
                   err |-> collectFields(<<fd>>, 1, <<>>).err,
                   field |-> IF collectFields(<<fd>>, 1, <<>>).err # "" THEN NoField
                             ELSE collectFields(<<fd>>, 1, <<>>).fields[1]]
    /\ UNCHANGED <<fd, names, mangled>>
    /\ UNCHANGED <<codecVars, runVars>>

NextLower == Lower

SpecLower == InitLower /\ [][NextLower]_vars

(***************************************************************************)
(* The driver: main of cmd/cleanproto, with Parse, the two generators and  *)
(* WriteFiles, one step for each turn of their loops.                      *)
(***************************************************************************)
\* filepath.Clean on the directory names of the model.
Clean(path) ==
    CASE path = "out/" -> "out"
      [] path = "./web" -> "web"
      [] OTHER -> path

cleanPath(path) == IF path = "" THEN "" ELSE Clean(path)

\* filepath.Join(dir, name)
Join(dir, name) == Clean(dir) \o "/" \o name

\* generate.Options as main fills it from the flags f.
Options(f) ==
    [GoPackage |-> f.goPkg, GoOut |-> cleanPath(f.goOut), JsOut |-> cleanPath(f.jsOut)]

\* The keys of the map indexMessages returns.
indexMessages(files) ==
    {files[i].Messages[j].FullName : i \in 1..Len(files), j \in {1}}

\* The kinds goMapKeyType has a Go type for.
GoMapKeyKinds ==
    {"Bool", "String", "Int32", "Sint32", "Sfixed32", "Int64", "Sint64", "Sfixed64",
     "Uint32", "Fixed32", "Uint64", "Fixed64"}

\* The error of goMapKeyType, "" for nil.
goMapKeyType(kind) ==
    IF kind \in GoMapKeyKinds THEN "" ELSE "unsupported map key type"

\* The error of goMapValueType, "" for nil.
goMapValueType(field, msgIndex) ==
    IF field.MapValueKind = "Message" /\ field.MapValueMessage \notin msgIndex
    THEN "unknown map value message: " \o field.MapValueMessage
    ELSE ""

\* The error of goConsumeMapValueFunc, "" for nil.
goConsumeMapValueFunc(field, msgIndex) ==
    IF field.IsTimestamp THEN "timestamp not supported in map values"
    ELSE IF field.MapValueKind = "Message" /\ field.MapValueMessage \notin msgIndex
    THEN "unknown map value message: " \o field.MapValueMessage
    ELSE ""

\* The error of goFieldType for a field, "" for nil.
goFieldType(field, msgIndex) ==
    IF field.IsTimestamp THEN ""
    ELSE IF field.IsDuration THEN ""
    ELSE IF field.IsMap
    THEN IF goMapKeyType(field.MapKeyKind) # "" THEN goMapKeyType(field.MapKeyKind)
         ELSE goMapValueType(field, msgIndex)
    ELSE IF field.Kind = "Message" /\ field.MessageFullName \notin msgIndex
    THEN "unknown message type: " \o field.MessageFullName
    ELSE ""

\* The error buildGoMessage returns on account of one field, "" for nil:
\* that of goFieldType, then that of goDecodeMap for a map field.
goFieldErr(field, msgIndex) ==
    IF goFieldType(field, msgIndex) # "" THEN goFieldType(field, msgIndex)
    ELSE IF field.IsMap THEN goConsumeMapValueFunc(field, msgIndex)
    ELSE ""

\* The error of buildGoFileData, "" for nil: that of the first field
\* buildGoMessage rejects.
buildGoFileData(file, msgIndex) ==
    IF \A j \in 1..Len(file.Messages[1].Fields) :
            goFieldErr(file.Messages[1].Fields[j], msgIndex) = ""
    THEN ""
    ELSE goFieldErr(
            file.Messages[1].Fields[
                CHOOSE j \in 1..Len(file.Messages[1].Fields) :
                    /\ goFieldErr(file.Messages[1].Fields[j], msgIndex) # ""
                    /\ \A h \in 1..(j - 1) :
                            goFieldErr(file.Messages[1].Fields[h], msgIndex) = ""],
            msgIndex)

\* The error of jsBaseType for a field, "" for nil.
jsBaseType(field, msgIndex) ==
    IF field.Kind = "Message" /\ field.MessageFullName \notin msgIndex
    THEN "unknown message type: " \o field.MessageFullName
    ELSE ""

\* The error of jsMapValueType, "" for nil.
jsMapValueType(field, msgIndex) ==
    IF field.MapValueKind = "Message" /\ field.MapValueMessage \notin msgIndex
    THEN "unknown map value message: " \o field.MapValueMessage
    ELSE ""

\* The error of jsDocType, "" for nil.
jsDocType(field, msgIndex) ==
    IF field.IsMap THEN jsMapValueType(field, msgIndex)
    ELSE jsBaseType(field, msgIndex)

\* The error of buildJSFileData, "" for nil.
buildJSFileData(file, msgIndex) ==
    IF \A j \in 1..Len(file.Messages[1].Fields) :
            jsDocType(file.Messages[1].Fields[j], msgIndex) = ""
    THEN ""
    ELSE jsDocType(
            file.Messages[1].Fields[
                CHOOSE j \in 1..Len(file.Messages[1].Fields) :
                    /\ jsDocType(file.Messages[1].Fields[j], msgIndex) # ""
                    /\ \A h \in 1..(j - 1) :
                            jsDocType(file.Messages[1].Fields[h], msgIndex) = ""],
            msgIndex)

NoOutput == [Path |-> "", Content |-> ""]

\* The body of the Go generator's loop with the output directory taken from
\* the invocation option alone.
GoGenerateFileOptionOnly(file, msgIndex, options, u) ==
    IF options.GoOut = ""
    THEN [skip |-> TRUE, err |-> "", out |-> NoOutput, util |-> u]
    ELSE IF (IF options.GoPackage # "" THEN options.GoPackage ELSE file.GoPackage) = ""
    THEN [skip |-> FALSE, err |-> "go package name is required", out |-> NoOutput, util |-> u]
    ELSE [skip |-> FALSE, err |-> buildGoFileData(file, msgIndex),
          out |-> [Path |-> Join(options.GoOut, "model.gen.go"), Content |-> file.Path],
          util |-> u]

\* The directory the loops of the generators write a file's output to.
OutDir(option, own) == IF option # "" THEN option ELSE own

\* The body of the loop of the Go generator's Generate for one file, u the
\* utilPkg and utilDir so far: [skip, err, out, util].
GoGenerateFile(file, msgIndex, options, u) ==
    IF OutDir(options.GoOut, file.GoOut) = ""
    THEN [skip |-> TRUE, err |-> "", out |-> NoOutput, util |-> u]
    ELSE IF OutDir(options.GoPackage, file.GoPackage) = ""
    THEN [skip |-> FALSE, err |-> "go package name is required", out |-> NoOutput, util |-> u]
    ELSE [skip |-> FALSE,
          err |-> buildGoFileData(file, msgIndex),
          out |-> [Path |-> Join(OutDir(options.GoOut, file.GoOut), "model.gen.go"),
                   Content |-> file.Path],
          util |-> IF u.pkg = ""
                   THEN [pkg |-> OutDir(options.GoPackage, file.GoPackage),
                         dir |-> OutDir(options.GoOut, file.GoOut)]
                   ELSE u]

\* The body of the loop of the JS generator's Generate for one file.
JsGenerateFile(file, msgIndex, options) ==
    IF OutDir(options.JsOut, file.JsOut) = ""
    THEN [skip |-> TRUE, err |-> "", out |-> NoOutput]
    ELSE [skip |-> FALSE,
          err |-> buildJSFileData(file, msgIndex),
          out |-> [Path |-> Join(OutDir(options.JsOut, file.JsOut), "model.js"),
                   Content |-> file.Path]]

RECURSIVE WriteFiles(_, _, _)
\* The files on disk d after WriteFiles has written the first n of outputs.
WriteFiles(d, outputs, n) ==
    IF n = 0 THEN d
    ELSE {f \in WriteFiles(d, outputs, n - 1) : f.Path # outputs[n].Path} \cup {outputs[n]}

(***************************************************************************)
(* The command lines the driver is run on.                                 *)
(***************************************************************************)
PlainField == Descriptor("Int32", "", "", "", FALSE, "none")

InputFile(syntax, field, package, goPackage, goOut, jsOut) ==
    [Path |-> "", Syntax |-> syntax, Package |-> package,
     GoPackageOption |-> goPackage, GoOutOption |-> goOut, JsOutOption |-> jsOut,
     MessageName |-> "M", Fields |-> <<field>>]

WktPackage == "google.protobuf"

\* google/protobuf/timestamp.proto, which the compiler's standard imports
\* resolve when it is named on the command line.
TimestampFile ==
    [InputFile("proto3", [Descriptor("Int64", "", "", "", FALSE, "none")
                              EXCEPT !.Name = "seconds"],
               WktPackage, "timestamppb", "", "")
        EXCEPT !.MessageName = "Timestamp",
               !.Fields = <<@[1], [Descriptor("Int32", "", "", "", FALSE, "none")
                                      EXCEPT !.Name = "nanos", !.Number = 2]>>]

\* A file whose message has the one field map<string, valueMessage> f = 1.
MapFile(valueMessage) ==
    InputFile("proto3", MapDescriptor("String", "Message", valueMessage),
              "demo", "api", "gen", "./web")

Catalog ==
    {InputFile("proto3", PlainField, "demo", "api", g, j) : g \in {"", "gen"}, j \in {"", "./web"}}
    \cup {InputFile("proto3", PlainField, "", "", "gen", ""),
          InputFile("proto3", PlainField, "demo", "api", "lib", ""),
          InputFile("proto2", PlainField, "demo", "api", "gen", "./web"),
          InputFile("proto3", Descriptor("Int32", "", "", "", FALSE, "synthetic"),
                    "demo", "", "gen", "./web"),
          InputFile("proto3", Descriptor("Int32", "", "", "", FALSE, "real"),
                    "demo", "", "gen", "./web"),
          InputFile("proto3", Descriptor("Message", "google.protobuf.Timestamp", "", "", FALSE, "none"),
                    "demo", "", "gen", "./web"),
          InputFile("proto3", Descriptor("Message", "google.protobuf.Timestamp", "", "", FALSE, "none"),
                    "demo", "", "gen", ""),
          InputFile("proto3", Descriptor("Message", "other.Msg", "", "", FALSE, "none"),
                    "demo", "", "gen", "./web"),
          InputFile("proto3", Descriptor("Message", "other.Msg", "", "", FALSE, "none"),
                    "demo", "", "", "./web"),
          MapFile("google.protobuf.Timestamp"),
          MapFile("google.protobuf.Duration"),
          TimestampFile}

\* The path and the package of the i-th file named on the command line.
PathOf(i) == <<"a.proto", "b.proto", "c.proto", "d.proto">>[i]

PackageOf(i, package) ==
    IF package \in {"", WktPackage} THEN package
    ELSE package \o <<".a", ".b", ".c", ".d">>[i]

\* The lists of files that compile together: no file is given twice.
InputLists ==
    UNION {{[i \in 1..n |-> [c[i] EXCEPT !.Path = IF c[i] = TimestampFile
                                                  THEN "google/protobuf/timestamp.proto"
                                                  ELSE PathOf(i),
                                        !.Package = PackageOf(i, c[i].Package)]] :
                c \in {x \in [1..n -> Catalog] :
                          Cardinality({i \in 1..n : x[i] = TimestampFile}) <= 1}} :
           n \in 1..MaxFiles}

FlagSets ==
    [goOut : {"", "out/"}, goPkg : {"", "main"}, jsOut : {"", "./web"}]

InitRun ==
    /\ IdleCodec
    /\ IdleLower
    /\ inputs \in InputLists
    /\ flags \in FlagSets
    /\ rpc = "parse"
    /\ idx = 1
    /\ acc = <<>>
    /\ util = [pkg |-> "", dir |-> ""]
    /\ seen = [parse |-> <<>>, go |-> <<>>, js |-> <<>>]
    /\ parseRet = NoParse
    /\ goRet = NoOutputs
    /\ jsRet = NoOutputs
    /\ disk = {}
    /\ exitErr = ""

\* One turn of the loop of Parse: fileToIR on the next file, the return of
\* an error, and the return of the result after the last file.
ParseFile ==
    /\ rpc = "parse"
    /\ idx <= Len(inputs)
    /\ seen' = [seen EXCEPT !.parse = Append(@, idx)]
    /\ IF fileToIR(inputs[idx]).err # ""
       THEN /\ parseRet' = [done |-> TRUE, err |-> fileToIR(inputs[idx]).err, files |-> <<>>]
            /\ exitErr' = fileToIR(inputs[idx]).err
            /\ rpc' = "exit"
            /\ UNCHANGED <<idx, acc>>
       ELSE IF idx = Len(inputs)
       THEN /\ parseRet' = [done |-> TRUE, err |-> "",
                            files |-> Append(acc, fileToIR(inputs[idx]).file)]
            /\ rpc' = "check"
            /\ idx' = 1
            /\ acc' = <<>>
            /\ UNCHANGED exitErr
       ELSE /\ acc' = Append(acc, fileToIR(inputs[idx]).file)
            /\ idx' = idx + 1
            /\ UNCHANGED <<parseRet, rpc, exitErr>>
    /\ UNCHANGED <<inputs, flags, util, goRet, jsRet, disk>>
    /\ UNCHANGED <<codecVars, lowerVars>>

\* main's test that some output directory is given.
CheckOut ==
    /\ rpc = "check"
    /\ IF /\ flags.goOut = "" /\ flags.jsOut = ""
          /\ ~\E i \in 1..Len(parseRet.files) :
                parseRet.files[i].GoOut # "" \/ parseRet.files[i].JsOut # ""
       THEN /\ rpc' = "exit"
            /\ exitErr' = "at least one of -go_out, -js_out, cleanproto.go_out, or cleanproto.js_out is required"
       ELSE /\ rpc' = "gogen"
            /\ UNCHANGED exitErr
    /\ UNCHANGED <<inputs, flags, idx, acc, util, seen, parseRet, goRet, jsRet, disk>>
    /\ UNCHANGED <<codecVars, lowerVars>>

\* One turn of the loop of the Go generator's Generate.
GoGenerateLoop ==
    /\ rpc = "gogen"
    /\ idx <= Len(parseRet.files)
    /\ seen' = [seen EXCEPT !.go = Append(@, idx)]
    /\ \E r \in {GoGenerateFile(parseRet.files[idx], indexMessages(parseRet.files),
                                Options(flags), util)} :
        IF r.err # ""
        THEN /\ goRet' = [done |-> TRUE, err |-> r.err, out |-> <<>>]
             /\ exitErr' = r.err
             /\ rpc' = "exit"
             /\ UNCHANGED <<idx, acc, util>>
        ELSE /\ acc' = IF r.skip THEN acc ELSE Append(acc, r.out)
             /\ util' = r.util
             /\ idx' = idx + 1
             /\ UNCHANGED <<goRet, rpc, exitErr>>
    /\ UNCHANGED <<inputs, flags, parseRet, jsRet, disk>>
    /\ UNCHANGED <<codecVars, lowerVars>>

\* The end of the Go generator's Generate: nil when no file gave output,
\* else the outputs and util.go, whose source loadUtilSource reads from disk.
GoGenerateReturn ==
    /\ rpc = "gogen"
    /\ idx > Len(parseRet.files)
    /\ \E readOk \in BOOLEAN :
        IF Len(acc) = 0
        THEN /\ goRet' = [done |-> TRUE, err |-> "", out |-> <<>>]
             /\ rpc' = "gowrite"
             /\ UNCHANGED exitErr
        ELSE IF readOk
        THEN /\ goRet' = [done |-> TRUE, err |-> "",
                          out |-> Append(acc, [Path |-> Join(util.dir, "util.go"),
                                               Content |-> util.pkg])]
             /\ rpc' = "gowrite"
             /\ UNCHANGED exitErr
        ELSE /\ goRet' = [done |-> TRUE, err |-> "read protowireu source", out |-> <<>>]
             /\ exitErr' = "read protowireu source"
             /\ rpc' = "exit"
    /\ UNCHANGED <<inputs, flags, idx, acc, util, seen, parseRet, jsRet, disk>>
    /\ UNCHANGED <<codecVars, lowerVars>>

\* generate.WriteFiles on the Go outputs: all are written, or an error of
\* the file system stops it after the first n.
GoWriteFiles ==
    /\ rpc = "gowrite"
    /\ \E n \in 0..Len(goRet.out) :
        /\ disk' = WriteFiles(disk, goRet.out, n)
        /\ IF n = Len(goRet.out)
           THEN /\ rpc' = "jsgen"
                /\ UNCHANGED exitErr
           ELSE /\ rpc' = "exit"
                /\ exitErr' = "write file " \o goRet.out[n + 1].Path
    /\ idx' = 1
    /\ acc' = <<>>
    /\ UNCHANGED <<inputs, flags, util, seen, parseRet, goRet, jsRet>>
    /\ UNCHANGED <<codecVars, lowerVars>>

\* One turn of the loop of the JS generator's Generate.
JsGenerateLoop ==
    /\ rpc = "jsgen"
    /\ idx <= Len(parseRet.files)
    /\ seen' = [seen EXCEPT !.js = Append(@, idx)]
    /\ \E r \in {JsGenerateFile(parseRet.files[idx], indexMessages(parseRet.files),
                                Options(flags))} :
        IF r.err # ""
        THEN /\ jsRet' = [done |-> TRUE, err |-> r.err, out |-> <<>>]
             /\ exitErr' = r.err
             /\ rpc' = "exit"
             /\ UNCHANGED <<idx, acc>>
        ELSE /\ acc' = IF r.skip THEN acc ELSE Append(acc, r.out)
             /\ idx' = idx + 1
             /\ UNCHANGED <<jsRet, rpc, exitErr>>
    /\ UNCHANGED <<inputs, flags, util, parseRet, goRet, disk>>
    /\ UNCHANGED <<codecVars, lowerVars>>

\* The end of the JS generator's Generate.
JsGenerateReturn ==
    /\ rpc = "jsgen"
    /\ idx > Len(parseRet.files)
    /\ jsRet' = [done |-> TRUE, err |-> "", out |-> acc]
    /\ rpc' = "jswrite"
    /\ UNCHANGED <<inputs, flags, idx, acc, util, seen, parseRet, goRet, disk, exitErr>>
    /\ UNCHANGED <<codecVars, lowerVars>>

\* generate.WriteFiles on the JS outputs, then main returns.
JsWriteFiles ==
    /\ rpc = "jswrite"
    /\ \E n \in 0..Len(jsRet.out) :
        /\ disk' = WriteFiles(disk, jsRet.out, n)
        /\ IF n = Len(jsRet.out)
           THEN /\ rpc' = "done"
                /\ UNCHANGED exitErr
           ELSE /\ rpc' = "exit"
                /\ exitErr' = "write file " \o jsRet.out[n + 1].Path
    /\ UNCHANGED <<inputs, flags, idx, acc, util, seen, parseRet, goRet, jsRet>>
    /\ UNCHANGED <<codecVars, lowerVars>>

NextRun ==
    \/ ParseFile
    \/ CheckOut
    \/ GoGenerateLoop
    \/ GoGenerateReturn
    \/ GoWriteFiles
    \/ JsGenerateLoop
    \/ JsGenerateReturn
    \/ JsWriteFiles

SpecRun == InitRun /\ [][NextRun]_vars

(***************************************************************************)
(* Properties of lowering and of the driver.                               *)
(***************************************************************************)
IsTimestampMessage(d) == d.Kind = "Message" /\ d.Message = "google.protobuf.Timestamp"

IsDurationMessage(d) == d.Kind = "Message" /\ d.Message = "google.protobuf.Duration"

\* The table of overrides: each override present is one the kind admits.
OverridesInTable(d) ==
    /\ d.GoType # "" =>
        \/ d.GoType = "time.Time"
            /\ (IsTimestampMessage(d) \/ d.Kind \in {"Int32", "Int64"})
        \/ d.GoType = "time.Duration"
            /\ (IsDurationMessage(d) \/ d.Kind \in {"Int32", "Int64"})
        \/ d.GoType = "github.com/google/uuid.UUID" /\ d.Kind = "Bytes"
    /\ d.JsType # "" =>
        /\ d.JsType \in {"number", "bigint"}
        /\ (d.Kind \in {"Int32", "Int64"} \/ IsTimestampMessage(d) \/ IsDurationMessage(d))

\* C6: a field no other check rejects is lowered iff it carries no override,
\* or it is not a map field and each override present is in the table; the
\* error of a rejected override names the field.
C6_OverrideTable ==
    (lowered.done /\ fd.Oneof # "real")
    => /\ lowered.err = "" <=>
            \/ fd.GoType = "" /\ fd.JsType = ""
            \/ ~fd.IsMap /\ OverridesInTable(fd)
       /\ lowered.err # "" =>
            lowered.err \in
                {"cleanproto.go_type/js_type not supported on map fields: " \o fd.FullName,
                 "unsupported cleanproto.go_type for " \o fd.FullName,
                 "unsupported cleanproto.js_type for " \o fd.FullName}

\* A string field with js_type bigint has been rejected.
C6_Witness ==
    /\ lowered.done
    /\ fd.Oneof = "none"
    /\ fd.Kind = "String" /\ fd.JsType = "bigint" /\ fd.GoType = ""
    /\ lowered.err = "unsupported cleanproto.js_type for demo.M.f"

\* C7: when an emitter has failed, no output file of the invocation has been
\* written.
C7_NoOutputOnFailure ==
    (goRet.err # "" \/ jsRet.err # "") => disk = {}

\* A file lowering rejects: its syntax is not proto3, or a field of it is in
\* a oneof that is not synthetic.
Rejected(file) ==
    \/ file.Syntax # "proto3"
    \/ \E j \in 1..Len(file.Fields) : file.Fields[j].Oneof = "real"

EmittedFor(out, file, dir, name) ==
    \E k \in 1..Len(out) : out[k] = [Path |-> Join(dir, name), Content |-> file.Path]

\* C10: a generator that returns without error has emitted a file's output,
\* into the invocation's directory when that is non-empty and else into the
\* file's own, exactly when that directory is non-empty; a Go run that skips
\* every file returns no outputs.
C10_EffectiveOutDir ==
    /\ (goRet.done /\ goRet.err = "") =>
        /\ \A i \in 1..Len(parseRet.files) :
            IF Options(flags).GoOut # ""
            THEN EmittedFor(goRet.out, parseRet.files[i], Options(flags).GoOut, "model.gen.go")
            ELSE IF parseRet.files[i].GoOut # ""
            THEN EmittedFor(goRet.out, parseRet.files[i], parseRet.files[i].GoOut, "model.gen.go")
            ELSE ~\E k \in 1..Len(goRet.out) : goRet.out[k].Content = parseRet.files[i].Path
        /\ (Options(flags).GoOut = "" /\ \A i \in 1..Len(parseRet.files) : parseRet.files[i].GoOut = "")
            => goRet.out = <<>>
    /\ (jsRet.done /\ jsRet.err = "") =>
        \A i \in 1..Len(parseRet.files) :
            IF Options(flags).JsOut # ""
            THEN EmittedFor(jsRet.out, parseRet.files[i], Options(flags).JsOut, "model.js")
            ELSE IF parseRet.files[i].JsOut # ""
            THEN EmittedFor(jsRet.out, parseRet.files[i], parseRet.files[i].JsOut, "model.js")
            ELSE ~\E k \in 1..Len(jsRet.out) : jsRet.out[k].Content = parseRet.files[i].Path

\* With no -go_out, the Go generator has skipped a file without go_out and
\* emitted one with it.
C10_Witness ==
    /\ goRet.done /\ goRet.err = ""
    /\ flags.goOut = ""
    /\ Len(parseRet.files) = 2
    /\ parseRet.files[1].GoOut = ""
    /\ parseRet.files[2].GoOut = "gen"
    /\ goRet.out = <<[Path |-> "gen/model.gen.go", Content |-> "b.proto"],
                     [Path |-> "gen/util.go", Content |-> "api"]>>

\* The directories the Go generator is given for the files of the run.
GoOutDirs ==
    ({Options(flags).GoOut} \cup {parseRet.files[i].GoOut : i \in 1..Len(parseRet.files)})
        \ {""}

\* C11: after the Go generator has succeeded, every directory that receives
\* a model.gen.go receives exactly one util.go.
C11_UtilPerDirectory ==
    (goRet.done /\ goRet.err = "") =>
        \A d \in GoOutDirs :
            (\E k \in 1..Len(goRet.out) : goRet.out[k].Path = Join(d, "model.gen.go"))
            => Cardinality({k \in 1..Len(goRet.out) :
                                goRet.out[k].Path = Join(d, "util.go")}) = 1

(***************************************************************************)
(* Names: ir.GoName and ir.JsName.  A name is a sequence of one-character  *)
(* strings.                                                                *)
(***************************************************************************)
MaxWords == 3

LowerLetters == <<"a", "d", "e", "i", "l", "m", "t", "u", "v">>

UpperLetters == <<"A", "D", "E", "I", "L", "M", "T", "U", "V">>

\* unicode.ToLower and unicode.ToUpper on the letters of the model.
ToLowerRune(c) ==
    IF \E k \in 1..Len(UpperLetters) : UpperLetters[k] = c
    THEN LowerLetters[CHOOSE k \in 1..Len(UpperLetters) : UpperLetters[k] = c]
    ELSE c

ToUpperRune(c) ==
    IF \E k \in 1..Len(LowerLetters) : LowerLetters[k] = c
    THEN UpperLetters[CHOOSE k \in 1..Len(LowerLetters) : LowerLetters[k] = c]
    ELSE c

IsUpperRune(c) == \E k \in 1..Len(UpperLetters) : UpperLetters[k] = c

RECURSIVE MapRunes(_, _, _)
\* The runes of s from the i-th on, each lowered (up = FALSE) or raised.
MapRunes(s, i, up) ==
    IF i > Len(s) THEN <<>>
    ELSE <<IF up THEN ToUpperRune(s[i]) ELSE ToLowerRune(s[i])>> \o MapRunes(s, i + 1, up)

\* strings.ToLower and strings.ToUpper
ToLower(s) == MapRunes(s, 1, FALSE)

ToUpper(s) == MapRunes(s, 1, TRUE)

title(s) == IF s = <<>> THEN <<>> ELSE <<ToUpperRune(s[1])>> \o Tail(s)

RECURSIVE StringsJoin(_, _)
\* strings.Join(parts, sep)
StringsJoin(parts, sep) ==
    IF parts = <<>> THEN <<>>
    ELSE IF Len(parts) = 1 THEN parts[1]
    ELSE parts[1] \o sep \o StringsJoin(Tail(parts), sep)

RECURSIVE FieldsFunc(_, _, _, _)
\* strings.FieldsFunc(name, r == '_' || r == '-'), each field lowered: cur
\* is the field being read, fields the ones read before the i-th rune.
FieldsFunc(name, i, cur, fields) ==
    IF i > Len(name)
    THEN IF cur = <<>> THEN fields ELSE Append(fields, ToLower(cur))
    ELSE IF name[i] \in {"_", "-"}
    THEN FieldsFunc(name, i + 1, <<>>,
                    IF cur = <<>> THEN fields ELSE Append(fields, ToLower(cur)))
    ELSE FieldsFunc(name, i + 1, Append(cur, name[i]), fields)

splitParts(name) ==
    IF name = <<>> THEN <<>>
    ELSE IF \E i \in 1..Len(name) : name[i] \in {"_", "-"}
    THEN FieldsFunc(name, 1, <<>>, <<>>)
    ELSE <<name>>

RECURSIVE GoNameParts(_, _)
\* The loop of GoName over parts from the i-th on, joined.
GoNameParts(parts, i) ==
    IF i > Len(parts) THEN <<>>
    ELSE (IF i = Len(parts) /\ parts[i] = <<"i", "d">>
          THEN <<"I", "D">>
          ELSE title(parts[i])) \o GoNameParts(parts, i + 1)

GoName(protoName) == GoNameParts(splitParts(protoName), 1)

RECURSIVE JsNameParts(_, _)
JsNameParts(parts, i) ==
    IF i > Len(parts) THEN <<>>
    ELSE (IF i = 1 THEN ToLower(parts[i]) ELSE title(parts[i])) \o JsNameParts(parts, i + 1)

JsName(protoName) == JsNameParts(splitParts(protoName), 1)

RECURSIVE toSnakeCaseFrom(_, _)
\* The loop of toSnakeCase from the i-th rune on.
toSnakeCaseFrom(name, i) ==
    IF i > Len(name) THEN <<>>
    ELSE IF name[i] = "-" THEN <<"_">> \o toSnakeCaseFrom(name, i + 1)
    ELSE (IF i > 1 /\ IsUpperRune(name[i]) THEN <<"_">> ELSE <<>>)
         \o <<ToLowerRune(name[i])>> \o toSnakeCaseFrom(name, i + 1)

toSnakeCase(name) == IF name = <<>> THEN <<>> ELSE toSnakeCaseFrom(name, 1)

\* The goField buildGoMessage makes of a field of the ir.Message.
buildGoMessage(field) ==
    [Name |-> GoName(field.Name), JSONTag |-> toSnakeCase(field.Name)]

(***************************************************************************)
(* Identifiers: words in lower, Title or UPPER case, each after the first  *)
(* delimited by "_", by "-" or by a camelCase boundary.                    *)
(***************************************************************************)
BaseWords == {<<"i", "d">>, <<"i", "t", "e", "m">>, <<"v", "a", "l", "u", "e">>, <<"2">>}

Cased(w, c) ==
    CASE c = "lower" -> w
      [] c = "title" -> title(w)
      [] c = "upper" -> ToUpper(w)

WordForms == [w : BaseWords, c : {"lower", "title", "upper"}, sep : {"", "_", "-", "camel"}]

Identifiers ==
    UNION {{ws \in [1..n -> WordForms] :
                /\ ws[1].sep = "" /\ ws[1].w # <<"2">>
                /\ \A i \in 2..n :
                    /\ ws[i].sep # ""
                    /\ ws[i].sep = "camel" => (ws[i].c = "title" /\ ws[i - 1].c # "upper")} :
            n \in 1..MaxWords}

RECURSIVE Render(_, _)
\* The identifier as it is written in the .proto file, from the i-th word on.
Render(ws, i) ==
    IF i > Len(ws) THEN <<>>
    ELSE (IF ws[i].sep \in {"_", "-"} THEN <<ws[i].sep>> ELSE <<>>)
         \o Cased(ws[i].w, ws[i].c) \o Render(ws, i + 1)

InitName ==
    /\ IdleCodec
    /\ IdleRun
    /\ fd = NoField
    /\ lowered = [done |-> FALSE, err |-> "", field |-> NoField]
    /\ names \in Identifiers
    /\ mangled = NoNames

\* The identifier as a name given to GoName, and as the name of a field:
\* collectFields stores JsName of it and the Go generator, run with a JSON
\* tag style, makes the struct field of what is stored.
NameField ==
    /\ ~mangled.done
    /\ names # <<>>
    /\ \E style \in {"", "snake"} :
        mangled' = [done |-> TRUE,
                    protoName |-> Render(names, 1),
                    goName |-> GoName(Render(names, 1)),
                    irName |-> JsName(Render(names, 1)),
                    GoJSONTags |-> style,
                    goField |-> buildGoMessage([Name |-> JsName(Render(names, 1))]).Name,
                    JSONTag |-> buildGoMessage([Name |-> JsName(Render(names, 1))]).JSONTag]
    /\ UNCHANGED <<fd, lowered, names>>
    /\ UNCHANGED <<codecVars, runVars>>

NextName == NameField

SpecName == InitName /\ [][NextName]_vars

\* The offset of the i-th word in a name with its delimiters removed.
RECURSIVE WordOffset(_, _)
WordOffset(ws, i) == IF i = 1 THEN 0 ELSE WordOffset(ws, i - 1) + Len(ws[i - 1].w)

\* In the Go name g of the identifier a final word id reads ID and an id
\* before it reads Id.
IdWordsRendered(ws, g) ==
    /\ Len(g) = WordOffset(ws, Len(ws) + 1)
    /\ \A i \in 1..Len(ws) :
        ws[i].w = <<"i", "d">> =>
            SubSeq(g, WordOffset(ws, i) + 1, WordOffset(ws, i) + 2)
                = IF i = Len(ws) THEN <<"I", "D">> ELSE <<"I", "d">>

\* C12: GoName renders a final word id as ID and a non-final one as Id, in
\* every letter case and however the word is delimited, and so does the Go
\* struct field generated for a field of that name.
C12_GoNameID ==
    mangled.done =>
        /\ IdWordsRendered(names, mangled.goName)
        /\ IdWordsRendered(names, mangled.goField)

(***************************************************************************)
(* Mangling of message and enum names: collectMessages, collectEnums and   *)
(* collectMessageEnums on the declarations of one file.                    *)
(***************************************************************************)
MaxTop == 2
MaxDepth == 1

joinName(parts) == IF Len(parts) = 0 THEN <<>> ELSE StringsJoin(parts, <<"_">>)

\* protoreflect's FullName of the declaration at a path of package demo.
FullNameOf(path) == StringsJoin(<<<<"d", "e", "m", "o">>>> \o path, <<".">>)

RECURSIVE collectEnums(_, _, _)
\* collectEnums(enums, prefix) from the i-th enum on.
collectEnums(enums, i, prefix) ==
    IF i > Len(enums) THEN <<>>
    ELSE <<[Name |-> GoName(joinName(Append(prefix, enums[i]))),
            FullName |-> FullNameOf(Append(prefix, enums[i]))]>>
         \o collectEnums(enums, i + 1, prefix)

RECURSIVE collectMessages(_, _, _)
\* collectMessages(messages, prefix) from the i-th message on.
collectMessages(messages, i, prefix) ==
    IF i > Len(messages) THEN <<>>
    ELSE <<[Name |-> GoName(joinName(Append(prefix, messages[i].Name))),
            FullName |-> FullNameOf(Append(prefix, messages[i].Name))]>>
         \o collectMessages(messages[i].Messages, 1, Append(prefix, messages[i].Name))
         \o collectMessages(messages, i + 1, prefix)

RECURSIVE collectMessageEnums(_, _, _)
\* collectMessageEnums(messages, prefix) from the i-th message on.
collectMessageEnums(messages, i, prefix) ==
    IF i > Len(messages) THEN <<>>
    ELSE collectEnums(messages[i].Enums, 1, Append(prefix, messages[i].Name))
         \o collectMessageEnums(messages[i].Messages, 1, Append(prefix, messages[i].Name))
         \o collectMessageEnums(messages, i + 1, prefix)

\* The declarations of a file: messages named Item, Value or ItemValue, each
\* with at most one nested message and at most one enum Value, and at most
\* one top-level enum ItemValue.  Declarations of one scope differ in name.
SimpleNames ==
    {<<"I", "t", "e", "m">>, <<"V", "a", "l", "u", "e">>,
     <<"I", "t", "e", "m", "V", "a", "l", "u", "e">>}

RECURSIVE MessageDecls(_)
MessageDecls(depth) ==
    {m \in [Name : SimpleNames,
            Messages : {<<>>} \cup (IF depth = 0 THEN {}
                                    ELSE {<<n>> : n \in MessageDecls(depth - 1)}),
            Enums : {<<>>, <<<<"V", "a", "l", "u", "e">>>>}] :
        \A i \in 1..Len(m.Messages) : \A j \in 1..Len(m.Enums) :
            m.Messages[i].Name # m.Enums[j]}

FileDecls ==
    {f \in [Messages : UNION {[1..n -> MessageDecls(MaxDepth)] : n \in 1..MaxTop},
            Enums : {<<>>, <<<<"I", "t", "e", "m", "V", "a", "l", "u", "e">>>>}] :
        /\ \A i, j \in 1..Len(f.Messages) :
                i # j => f.Messages[i].Name # f.Messages[j].Name
        /\ \A i \in 1..Len(f.Messages) : \A j \in 1..Len(f.Enums) :
                f.Messages[i].Name # f.Enums[j]}

InitMangle ==
    /\ IdleCodec
    /\ IdleRun
    /\ fd = NoField
    /\ lowered = [done |-> FALSE, err |-> "", field |-> NoField]
    /\ names \in FileDecls
    /\ mangled = NoNames

\* The messages and enums fileToIR puts in the ir.File.
Mangle ==
    /\ ~mangled.done
    /\ names \in FileDecls
    /\ mangled' = [done |-> TRUE,
                   Messages |-> collectMessages(names.Messages, 1, <<>>),
                   Enums |-> collectEnums(names.Enums, 1, <<>>)
                             \o collectMessageEnums(names.Messages, 1, <<>>)]
    /\ UNCHANGED <<fd, lowered, names>>
    /\ UNCHANGED <<codecVars, runVars>>

NextMangle == Mangle

SpecMangle == InitMangle /\ [][NextMangle]_vars

\* No two declarations of the list with different full names have the same
\* name.
UniqueNames(decls) ==
    \A i, j \in 1..Len(decls) :
        decls[i].FullName # decls[j].FullName => decls[i].Name # decls[j].Name

\* C13: in the ir.File lowering produces, messages of different full names
\* have different names, and so have enums.
C13_UniqueAfterMangling ==
    mangled.done => (UniqueNames(mangled.Messages) /\ UniqueNames(mangled.Enums))

\* C14: the Go struct field the generator hands to its template carries a
\* JSON tag iff the JSON tag style of the run is snake.
C14_JsonTagIffSnake ==
    mangled.done /\ names \in Identifiers
        => (mangled.JSONTag # <<>> <=> mangled.GoJSONTags = "snake")

(***************************************************************************)
(* Integer-backed time fields: the cleanproto.ts option, lowered and then  *)
(* encoded and decoded by the generated Go code.                           *)
(***************************************************************************)
\* The body of the loop of collectFields for a field with the cleanproto.ts
\* option: [err, field].
collectFieldsTs(d) ==
    IF d.Ts # "" /\ d.Ts # "seconds" /\ d.Ts # "milliseconds"
    THEN [err |-> "invalid cleanproto.ts option on " \o d.FullName \o ": " \o d.Ts,
          field |-> NoField]
    ELSE IF d.Ts # "" /\ d.Kind # "Int32" /\ d.Kind # "Int64"
    THEN [err |-> "cleanproto.ts only supported on int32/int64: " \o d.FullName,
          field |-> NoField]
    ELSE [err |-> "",
          field |-> [Name |-> d.Name, Number |-> d.Number, Kind |-> d.Kind,
                     IsRepeated |-> FALSE, IsOptional |-> d.Optional, IsPacked |-> FALSE,
                     IsMap |-> FALSE, IsDuration |-> FALSE,
                     IsTimestamp |-> d.Ts # "", TimestampUnit |-> d.Ts,
                     GoType |-> "", JSType |-> ""]]

TsDescriptors ==
    [Name : {"t"}, FullName : {"demo.M.t"}, Number : {1, 2},
     Kind : {"Int32", "Int64", "String"},
     Ts : {"seconds", "milliseconds", "minutes"},
     Optional : BOOLEAN]

\* Instants before and after the epoch, on and off a whole second.
TimeValues == {ZeroTime} \cup {UnixMilliTime(ms) : ms \in {-1500, 999, 1500, 2000, 86400000}}

InitTime ==
    /\ IdleRun
    /\ IdleNames
    /\ fd \in TsDescriptors
    /\ lowered = [done |-> FALSE, err |-> "", field |-> NoField]
    /\ msgType = <<>>
    /\ msgValue \in {<<IF fd.Optional THEN [set |-> present, v |-> t] ELSE t>> :
                        t \in TimeValues, present \in BOOLEAN}
    /\ wire = <<>>
    /\ clean = <<>>
    /\ cuts = <<0>>
    /\ unknown = 0
    /\ producer = "none"
    /\ decoder = "none"
    /\ result = NoResult
    /\ prior = NoPrior
    /\ pc = "new"

\* collectFields on the field.
TimeLower ==
    /\ ~lowered.done
    /\ fd \in TsDescriptors
    /\ lowered' = [done |-> TRUE, err |-> collectFieldsTs(fd).err,
                   field |-> collectFieldsTs(fd).field]
    /\ UNCHANGED <<fd, names, mangled>>
    /\ UNCHANGED <<codecVars, runVars>>

\* b := m.Encode() of the message generated for the lowered field.
TimeEncode ==
    /\ pc = "new"
    /\ lowered.done /\ lowered.err = ""
    /\ lowered.field.IsTimestamp
    /\ msgType' = <<lowered.field>>
    /\ wire' = GoEncode(<<lowered.field>>, msgValue)
    /\ clean' = wire'
    /\ cuts' = <<0, Len(wire')>>
    /\ producer' = "go"
    /\ pc' = "encoded"
    /\ UNCHANGED <<msgValue, unknown, decoder, result, prior>>
    /\ UNCHANGED <<lowerVars, runVars>>

\* m, err := Decode<T>(b) of the same message.
TimeDecode ==
    /\ pc = "encoded"
    /\ lowered.done /\ lowered.err = ""
    /\ Len(msgType) = 1 /\ msgType[1].IsTimestamp
    /\ result' = GoDecode(msgType, wire)
    /\ decoder' = "go"
    /\ pc' = "decoded"
    /\ UNCHANGED <<msgType, msgValue, wire, clean, cuts, unknown, producer, prior>>
    /\ UNCHANGED <<lowerVars, runVars>>

NextTime ==
    \/ TimeLower
    \/ TimeEncode
    \/ TimeDecode

SpecTime == InitTime /\ [][NextTime]_vars

\* The integer the field's record on the wire carries.
CarriedValue(field, b) ==
    IntOf(Consume(goConsumeFunc(field.Kind), ConsumeTag(b).b, VarintType).v)

\* The instant given to Encode and the instant Decode returned.
TimeGiven == IF msgType[1].IsOptional THEN msgValue[1].v ELSE msgValue[1]

TimeReturned == IF msgType[1].IsOptional THEN result.m[1].v ELSE result.m[1]

\* C15: an Int32 time field is written and read as epoch seconds and an
\* Int64 time field as epoch milliseconds, whatever the schema says.
C15_UnitFixedByKind ==
    (pc = "decoded" /\ Len(msgType) = 1 /\ msgType[1].IsTimestamp /\ wire # <<>>)
    => /\ ~result.err
       /\ msgType[1].Kind = "Int32" =>
            /\ CarriedValue(msgType[1], wire) = TimeGiven.ms \div 1000
            /\ TimeReturned.ms = 1000 * (TimeGiven.ms \div 1000)
       /\ msgType[1].Kind = "Int64" =>
            /\ CarriedValue(msgType[1], wire) = TimeGiven.ms
            /\ TimeReturned.ms = TimeGiven.ms

(***************************************************************************)
(* Bit-exactness of the varints of int32 and enum values.                  *)
(***************************************************************************)
\* The bytes the k-th field contributed to the encoding.
FieldBytes(k) == SubSeq(wire, cuts[k] + 1, cuts[k + 1])

RECURSIVE ProtoInt32Varints(_, _)
\* The Protocol Buffers varints of the int32 values from the i-th on: each
\* value sign-extended to 64 bits.
ProtoInt32Varints(items, i) ==
    IF i > Len(items) THEN <<>>
    ELSE AppendVarint(<<>>, SignExtend(items[i])) \o ProtoInt32Varints(items, i + 1)

\* C16: the Go encoder writes an int32 or enum value as the varint of the
\* value sign-extended to 64 bits, in a singular field and in a packed block.
C16_Int32SignExtended ==
    (pc = "encoded" /\ producer = "go" /\ unknown = 0)
    => \A k \in 1..Len(msgType) :
        /\ (IsPlainScalar(msgType[k]) /\ msgType[k].Kind \in {"Int32", "Enum"}
                /\ ~IsZero(msgValue[k]))
            => FieldBytes(k) = AppendVarint(AppendTag(<<>>, msgType[k].Number, VarintType),
                                            SignExtend(msgValue[k]))
        /\ (msgType[k].IsRepeated /\ msgType[k].IsPacked
                /\ msgType[k].Kind \in {"Int32", "Enum"} /\ msgValue[k] # <<>>)
            => FieldBytes(k) = AppendBytes(AppendTag(<<>>, msgType[k].Number, BytesType),
                                           ProtoInt32Varints(msgValue[k], 1))

(***************************************************************************)
(* Map fields whose value is a well-known type.                            *)
(***************************************************************************)
WktMessages == {"google.protobuf.Timestamp", "google.protobuf.Duration"}

\* The message of the file has a map field with a well-known value type.
HasWktMap(file) ==
    \E j \in 1..Len(file.Messages[1].Fields) :
        /\ file.Messages[1].Fields[j].IsMap
        /\ file.Messages[1].Fields[j].MapValueKind = "Message"
        /\ file.Messages[1].Fields[j].MapValueMessage \in WktMessages

\* C17: a generator that is given, among files of any kind, a file it does
\* not skip with a map field whose value type is google.protobuf.Timestamp
\* or google.protobuf.Duration returns an error.
C17_WktMapRejected ==
    /\ goRet.done =>
        \A i \in 1..Len(parseRet.files) :
            (HasWktMap(parseRet.files[i])
                /\ OutDir(Options(flags).GoOut, parseRet.files[i].GoOut) # "")
            => goRet.err # ""
    /\ jsRet.done =>
        \A i \in 1..Len(parseRet.files) :
            (HasWktMap(parseRet.files[i])
                /\ OutDir(Options(flags).JsOut, parseRet.files[i].JsOut) # "")
            => jsRet.err # ""

(***************************************************************************)
(* Repeated fields written one element at a time.                          *)
(***************************************************************************)
RECURSIVE CountRecords(_)
RECURSIVE CountAfterTag(_)
RECURSIVE CountAfterSkip(_)
\* The number of tagged fields in the bytes b, read one after the other.
CountRecords(b) == IF b = <<>> THEN 0 ELSE CountAfterTag(ConsumeTag(b))

CountAfterTag(t) ==
    IF t.err THEN 0 ELSE CountAfterSkip(SkipFieldValue(t.b, t.num, t.typ))

CountAfterSkip(r) == IF r.err THEN 0 ELSE 1 + CountRecords(r.b)

\* A repeated field the emitters do not write as a packed block.
IsUnpackedList(field) ==
    field.IsRepeated /\ ~(field.IsPacked /\ isGoPackable(field.Kind))

\* C19: for a repeated field that is not packed, the Go Encode writes one
\* tagged field per element, default elements included, and Decode of those
\* bytes returns the list.
C19_OneFieldPerElement ==
    /\ (pc = "encoded" /\ producer = "go" /\ unknown = 0)
        => \A k \in 1..Len(msgType) :
            IsUnpackedList(msgType[k])
            => CountRecords(FieldBytes(k)) = Len(msgValue[k])
    /\ (pc = "decoded" /\ producer = "go" /\ decoder = "go" /\ unknown = 0)
        => \A k \in 1..Len(msgType) :
            IsUnpackedList(msgType[k])
            => ~result.err /\ result.m[k] = msgValue[k]

(***************************************************************************)
(* Map fields on the wire.                                                 *)
(***************************************************************************)
\* The entry of a map<string, int32> field numbered 4 that holds "a": 1.
ExampleMap == {<<(<<97>>), NatBytes(1, 4)>>}

\* C20: the Go Encode writes one length-delimited entry per pair of a map,
\* {"a": 1} of a map<string, int32> numbered 4 as 22 05 0A 01 61 10 01, and
\* the Go Decode of the bytes returns the map, entries with a default key or
\* value or an empty message as value included.
C20_MapRoundTrip ==
    /\ (pc = "encoded" /\ producer = "go" /\ unknown = 0 /\ HasMap(msgType))
        => /\ CountRecords(wire) = Cardinality(msgValue[1])
           /\ (msgType = <<MapField(4, "String", "Int32")>> /\ msgValue = <<ExampleMap>>)
                => wire = <<34, 5, 10, 1, 97, 16, 1>>
    /\ (pc = "decoded" /\ producer = "go" /\ decoder = "go" /\ unknown = 0
            /\ HasMap(msgType))
        => ~result.err /\ result.m = msgValue

(***************************************************************************)
(* Tags.                                                                   *)
(***************************************************************************)
\* The wire type of a kind in the Protocol Buffers encoding.
WireTypeOfKind(kind) ==
    CASE kind \in {"Bool", "Int32", "Int64", "Uint32", "Uint64", "Sint32", "Sint64", "Enum"} ->
            VarintType
      [] kind \in {"Fixed32", "Sfixed32", "Float"} -> Fixed32Type
      [] kind \in {"Fixed64", "Sfixed64", "Double"} -> Fixed64Type
      [] kind \in {"String", "Bytes", "Message"} -> BytesType

\* The wire type of the records a field is written as: length-delimited for
\* a map entry and a packed block, that of the kind otherwise.
WireTypeOfField(field) ==
    IF field.IsMap \/ (field.IsRepeated /\ field.IsPacked /\ isGoPackable(field.Kind))
    THEN BytesType
    ELSE WireTypeOfKind(field.Kind)

RECURSIVE AllTagsAre(_, _, _, _)
RECURSIVE TagIs(_, _, _, _, _)
RECURSIVE TagThenValue(_, _, _, _, _)
\* Every record of the bytes b begins with the varint of (num << 3) | typ, a
\* value below 2^32 whose upper bits are num and whose low three bits are
\* typ, as the readers of both targets take it apart.
AllTagsAre(b, num, typ, reader) ==
    IF b = <<>> THEN TRUE
    ELSE TagIs(b, num, typ, reader, ConsumeVarint(b))

TagIs(b, num, typ, reader, h) ==
    /\ h.n > 0
    /\ \A j \in 5..8 : h.v[j] = 0
    /\ h.v[1] = (num % 32) * 8 + typ
    /\ h.v[2] = (num \div 32) % 256
    /\ h.v[3] = (num \div 8192) % 256
    /\ h.v[4] = (num \div 2097152) % 256
    /\ TagThenValue(b, num, typ, reader,
                    IF reader = "go" THEN ConsumeTag(b) ELSE JsTag(JsRead("uint32", b)))

TagThenValue(b, num, typ, reader, t) ==
    /\ ~t.err
    /\ t.num = num
    /\ t.typ = typ
    /\ ~SkipFieldValue(t.b, t.num, t.typ).err
    /\ AllTagsAre(SkipFieldValue(t.b, t.num, t.typ).b, num, typ, reader)

IsPackedField(field) ==
    field.IsRepeated /\ field.IsPacked /\ ~field.IsMap /\ jsIsPackable(field.Kind)

\* C21: the JS decoder reads back the packed block the JS encoder writes,
\* for every packable kind and also when the repeated int32 or int64 field
\* carries a js_type override: decoding what encode<T> wrote succeeds and
\* every packed field holds the elements that were encoded.
C21_JsReadsOwnPackedBlock ==
    (pc = "decoded" /\ producer = "js" /\ decoder = "js" /\ unknown = 0)
        => \A k \in 1..Len(msgType) :
              IsPackedField(msgType[k])
                  => ~result.err /\ result.m[k] = msgValue[k]

(***************************************************************************)
(* C22: the packed block of a repeated scalar field.                       *)
(***************************************************************************)
\* The elements of kind in a packed payload, read one after the other with
\* no tag between them: [err, b, v].
ElementsOf(kind, payload) ==
    JsPackedLoop(jsReaderMethod(kind), payload, Len(payload), <<>>)

\* blk is the length-delimited value that follows the tag t: it ends the
\* record, and its payload is exactly the elements items.
IsBlockOf(field, items, t, blk) ==
    /\ ~t.err /\ t.num = field.Number /\ t.typ = BytesType
    /\ ~blk.err /\ blk.b = <<>>
    /\ ElementsOf(field.Kind, blk.v) = Ok(<<>>, items)

\* b is one length-delimited record of the field holding items.
OnePackedBlock(field, items, b) ==
    /\ CountRecords(b) = 1
    /\ IsBlockOf(field, items, ConsumeTag(b), ConsumeBytes(ConsumeTag(b).b, BytesType))

\* repeated int32 xs = 3 [packed = true] with the elements [1, 2, 150].
PackedExample == <<NatBytes(1, 4), NatBytes(2, 4), NatBytes(150, 4)>>

PackedExampleGo == goEncodePacked(Field(3, "Int32", "packed", ""), <<>>, PackedExample)

PackedExampleJs == buildWriteFunc(Field(3, "Int32", "packed", ""), <<>>, PackedExample)

\* C22: for a packed repeated scalar field both encoders write nothing for
\* an empty list and otherwise exactly one length-delimited record whose
\* payload is every element, zero and false included, with no tag between
\* them; [1, 2, 150] at field 3 is 1A 04 01 02 96 01.
C22_OnePackedBlock ==
    /\ (pc = "encoded" /\ producer \in {"go", "js"} /\ unknown = 0)
        => \A k \in 1..Len(msgType) :
            IsPackedField(msgType[k])
            => IF msgValue[k] = <<>> THEN FieldBytes(k) = <<>>
               ELSE OnePackedBlock(msgType[k], msgValue[k], FieldBytes(k))
    /\ PackedExampleGo = <<26, 4, 1, 2, 150, 1>>
    /\ PackedExampleJs = <<26, 4, 1, 2, 150, 1>>

\* The Go encoder has packed a list of two elements whose first is zero.
C22_Witness ==
    /\ pc = "encoded" /\ producer = "go" /\ unknown = 0
    /\ Len(msgType) = 1 /\ IsPackedField(msgType[1])
    /\ msgType[1].Kind = "Sint64"
    /\ Len(msgValue[1]) = 2 /\ IsZero(msgValue[1][1]) /\ ~IsZero(msgValue[1][2])
    /\ Len(wire) > 3

(***************************************************************************)
(* Well-known time fields through the generated Go code: a message with    *)
(* one google.protobuf.Timestamp or Duration field is encoded and decoded. *)
(***************************************************************************)
\* A field of message type google.protobuf.Timestamp or Duration as the
\* Go emitter is given it.
GoWktField(num, wkt, label) ==
    [Name |-> "f", Number |-> num, Kind |-> "Message",
     IsRepeated |-> label = "repeated", IsOptional |-> label = "optional",
     IsPacked |-> FALSE, IsMap |-> FALSE,
     IsTimestamp |-> wkt = "Timestamp", IsDuration |-> wkt = "Duration",
     TimestampUnit |-> IF wkt = "Timestamp" THEN "wkt" ELSE "",
     GoType |-> "", JSType |-> "",
     MapKeyKind |-> "", MapValueKind |-> "", MapValueMessage |-> ""]

GoWktSchemas ==
    {<<GoWktField(n, w, l)>> : n \in {1, 16}, w \in {"Timestamp", "Duration"},
                               l \in {"single", "optional", "repeated"}}

\* Seconds over the whole of int64: the least and the greatest, the second
\* of the zero Time, either side of the epoch and a present-day second.
InstantSeconds ==
    {<<0, 0, 0, 0, 0, 0, 0, 128>>, ZeroTimeSeconds, IntBytes(-1, 8), IntBytes(0, 8),
     IntBytes(1, 8), IntBytes(1700000000, 8), <<255, 255, 255, 255, 255, 255, 255, 127>>}

Instants == [sec : InstantSeconds, nsec : {0, 1, 999999999}]

ZeroInstant == [sec |-> ZeroTimeSeconds, nsec |-> 0]

Epoch == [sec |-> IntBytes(0, 8), nsec |-> 0]

\* Durations of either sign, of whole seconds and not.
Durations ==
    {[s |-> 0, n |-> 0], [s |-> 0, n |-> 1], [s |-> 0, n |-> -1],
     [s |-> 1, n |-> 500000000], [s |-> -1, n |-> -500000000],
     [s |-> 3, n |-> 0], [s |-> -3, n |-> 0],
     [s |-> 2000000000, n |-> 999999999], [s |-> -2000000000, n |-> -999999999]}

\* The elements lists are made of.
WktItems(field) ==
    IF field.IsTimestamp
    THEN {ZeroInstant, Epoch, [sec |-> IntBytes(-1, 8), nsec |-> 999999999],
          [sec |-> IntBytes(1700000000, 8), nsec |-> 1]}
    ELSE {[s |-> 0, n |-> 0], [s |-> -1, n |-> -500000000], [s |-> 3, n |-> 0]}

WktValues(field) ==
    IF field.IsRepeated
    THEN UNION {[1..k -> WktItems(field)] : k \in 0..MaxListLen}
    ELSE IF field.IsOptional
    THEN {[set |-> FALSE, v |-> GoZeroValue([field EXCEPT !.IsOptional = FALSE])]}
         \cup {[set |-> TRUE, v |-> x] : x \in IF field.IsTimestamp THEN Instants ELSE Durations}
    ELSE IF field.IsTimestamp THEN Instants ELSE Durations

InitWkt ==
    /\ IdleRun
    /\ IdleLower
    /\ msgType \in GoWktSchemas
    /\ msgValue \in {<<x>> : x \in WktValues(msgType[1])}
    /\ wire = <<>>
    /\ clean = <<>>
    /\ cuts = <<0>>
    /\ unknown = 0
    /\ producer = "none"
    /\ decoder = "none"
    /\ result = NoResult
    /\ prior = NoPrior
    /\ pc = "new"

\* b := m.Encode()
WktEncode ==
    /\ pc = "new"
    /\ wire' = GoEncode(msgType, msgValue)
    /\ clean' = wire'
    /\ cuts' = <<0, Len(wire')>>
    /\ producer' = "go"
    /\ pc' = "encoded"
    /\ UNCHANGED <<msgType, msgValue, unknown, decoder, result, prior>>
    /\ UNCHANGED <<lowerVars, runVars>>

\* m, err := Decode<T>(b)
WktDecode ==
    /\ pc = "encoded"
    /\ result' = GoDecode(msgType, wire)
    /\ decoder' = "go"
    /\ pc' = "decoded"
    /\ UNCHANGED <<msgType, msgValue, wire, clean, cuts, unknown, producer, prior>>
    /\ UNCHANGED <<lowerVars, runVars>>

NextWkt ==
    \/ WktEncode
    \/ WktDecode

SpecWkt == InitWkt /\ [][NextWkt]_vars

\* C23: Decode(Encode(m)) = m for a Timestamp or Duration field of the
\* generated Go code, for every instant (before the epoch, the epoch, the
\* zero Time) and every duration (negative, zero), singular and repeated,
\* no element of a list dropped.
C23_WktRoundTrip ==
    (pc = "decoded" /\ ~msgType[1].IsOptional)
        => ~result.err /\ result.m = msgValue

(***************************************************************************)
(* C24: the references a lowered field carries.                            *)
(***************************************************************************)
\* C24: every field lowering produces, map fields too, has a message name
\* when its kind is Message and only then, an enum name exactly when its
\* kind is Enum, and the message or enum name of a map value exactly when
\* it is a map whose value is of that kind.
C24_FieldReferences ==
    (lowered.done /\ lowered.err = "" /\ fd \in FieldDescriptors)
    => /\ lowered.field.Kind = "Message" => lowered.field.MessageFullName # ""
       /\ lowered.field.MessageFullName # "" => lowered.field.Kind = "Message"
       /\ lowered.field.EnumFullName # "" <=> lowered.field.Kind = "Enum"
       /\ lowered.field.MapValueMessage # ""
            <=> (lowered.field.IsMap /\ lowered.field.MapValueKind = "Message")
       /\ lowered.field.MapValueEnum # ""
            <=> (lowered.field.IsMap /\ lowered.field.MapValueKind = "Enum")
       /\ lowered.field.MapKeyKind # "" <=> lowered.field.IsMap
       /\ lowered.field.MapValueKind # "" <=> lowered.field.IsMap

(***************************************************************************)
(* C25: the JSON tag of a field against its name in the schema.            *)
(***************************************************************************)
\* The name is lower snake_case: lower-case words of letters and digits,
\* joined by "_".
IsLowerSnake(ws) ==
    \A i \in 1..Len(ws) : ws[i].c = "lower" /\ (i > 1 => ws[i].sep = "_")

\* C25: the JSON tag of a field whose schema name n is lower snake_case
\* (occurred_at, line_2) is n: toSnakeCase(JsName(n)) = n, with no
\* upper-case letter and no "-" in it.
C25_JsonTagIsProtoName ==
    (mangled.done /\ names \in Identifiers /\ IsLowerSnake(names))
    => /\ mangled.JSONTag = mangled.protoName
       /\ \A i \in 1..Len(mangled.JSONTag) :
            ~IsUpperRune(mangled.JSONTag[i]) /\ mangled.JSONTag[i] # "-"

(***************************************************************************)
(* C26: the paths of the files one Generate call returns.                  *)
(***************************************************************************)
DistinctPaths(out) ==
    \A j, k \in 1..Len(out) : j # k => out[j].Path # out[k].Path

\* C26: in the list one Generate call returns, of the Go generator as of
\* the JS generator, no two files have the same path.
C26_DistinctOutputPaths ==
    /\ (goRet.done /\ goRet.err = "") => DistinctPaths(goRet.out)
    /\ (jsRet.done /\ jsRet.err = "") => DistinctPaths(jsRet.out)

(***************************************************************************)
(* Nested length-delimited values on the decoders: a sub-message, a packed *)
(* block or a Timestamp whose length prefix a peer is free to choose,      *)
(* followed by more of the enclosing message.                              *)
(***************************************************************************)
NestedSchemas ==
    {<<Field(1, "Message", "single", ""), Field(2, "Int32", "single", "")>>,
     <<Field(1, "Int32", "packed", ""), Field(2, "Int32", "single", "")>>,
     <<GoWktField(1, "Timestamp", "single"), Field(2, "Int32", "single", "")>>}

\* What the peer puts after the length prefix: records of the nested
\* message (or elements of the block), then records of field 2.
NestedPayloads(field) ==
    IF field.IsPacked THEN {<<>>, <<1>>, <<150, 1>>, <<1, 2>>}
    ELSE {<<>>, <<8, 1>>, <<8, 150, 1>>, <<8, 1, 8, 2>>}

\* What follows in the enclosing message: records of field 2 and, after a
\* packed block, further occurrences of field 1 as a block or as a single
\* element.
NestedTails(field) ==
    {<<>>, <<16, 5>>, <<16, 150, 1>>}
    \cup IF field.IsPacked THEN {<<10, 1, 3>>, <<10, 2, 3, 4>>, <<8, 3>>, <<16, 5, 10, 1, 3>>}
          ELSE {}

\* Field 1, length-delimited, with the length prefix n before the bytes.
NestedStreams(field) ==
    {<<10, n>> \o p \o t : p \in NestedPayloads(field), t \in NestedTails(field),
                           n \in 0..7}

InitNested ==
    /\ IdleRun
    /\ IdleLower
    /\ msgType \in NestedSchemas
    /\ msgValue = <<>>
    /\ wire \in NestedStreams(msgType[1])
    /\ clean = wire
    /\ cuts = <<0>>
    /\ unknown = 0
    /\ producer = "peer"
    /\ decoder = "none"
    /\ result = NoResult
    /\ prior = NoPrior
    /\ pc = "encoded"

\* m, err := Decode<T>(b) in Go.
NestedDecode ==
    /\ pc = "encoded"
    /\ result' = GoDecode(msgType, wire)
    /\ decoder' = "go"
    /\ pc' = "decoded"
    /\ UNCHANGED <<msgType, msgValue, wire, clean, cuts, unknown, producer, prior>>
    /\ UNCHANGED <<lowerVars, runVars>>

\* message := decode<T>(buffer) in JS.
NestedJsDecode ==
    /\ pc = "encoded"
    /\ ~msgType[1].IsTimestamp
    /\ result' = buildDecodeMessageFunc(msgType, wire)
    /\ decoder' = "js"
    /\ pc' = "decoded"
    /\ UNCHANGED <<msgType, msgValue, wire, clean, cuts, unknown, producer, prior>>
    /\ UNCHANGED <<lowerVars, runVars>>

NextNested ==
    \/ NestedDecode
    \/ NestedJsDecode

SpecNested == InitNested /\ [][NextNested]_vars

\* The length the prefix declares and whether the buffer holds that much.
DeclaredLen == wire[2]

DeclaredFits == DeclaredLen <= Len(wire) - 2

\* The bytes the prefix declares to be the nested value, and the bytes of
\* the enclosing message after them.
DeclaredBytes == SubSeq(wire, 3, 2 + DeclaredLen)

AfterDeclared == Drop(wire, 2 + DeclaredLen)

\* The nested value read from the declared bytes alone: [err, v].
NestedAlone(field, how, bytes) ==
    CASE field.IsTimestamp ->
            [err |-> DecodeTimestamp(bytes).err, v |-> DecodeTimestamp(bytes).v]
      [] field.IsPacked /\ how = "go" ->
            [err |-> ConsumePackedItems(bytes, VarintType, "ConsumeVarInt32", <<>>).err,
             v |-> ConsumePackedItems(bytes, VarintType, "ConsumeVarInt32", <<>>).v]
      [] field.IsPacked ->
            [err |-> ElementsOf(field.Kind, bytes).err, v |-> ElementsOf(field.Kind, bytes).v]
      [] how = "go" ->
            [err |-> GoDecode(MessageIndex("demo.Inner"), bytes).err,
             v |-> [set |-> TRUE, v |-> GoDecode(MessageIndex("demo.Inner"), bytes).m]]
      [] OTHER ->
            [err |-> buildDecodeMessageFunc(MessageIndex("demo.Inner"), bytes).err,
             v |-> [set |-> TRUE, v |-> buildDecodeMessageFunc(MessageIndex("demo.Inner"), bytes).m]]

\* The enclosing message decoded with the nested value held to its
\* declared bytes: an error when the prefix reaches past the buffer or the
\* declared bytes are not a whole value, else the rest of the message
\* read from the declared end on.
BoundedDecode(how, alone) ==
    IF ~DeclaredFits \/ alone.err THEN NoMessage
    ELSE IF how = "go"
    THEN GoDecodeLoop(msgType, AfterDeclared,
                      [i \in 1..2 |-> IF i = 1 THEN alone.v ELSE GoZeroValue(msgType[2])])
    ELSE JsDecodeLoop(msgType, AfterDeclared,
                      [i \in 1..2 |-> IF i = 1 THEN alone.v ELSE jsDefaultValue(msgType[2])])

\* C27: a nested decoder never consumes bytes beyond the end its parent
\* declared, in JS as in Go: a length prefix that reaches past the buffer
\* or that cuts a record of the nested value is an error, and otherwise
\* the nested value is read from the declared bytes and the enclosing
\* message goes on from the declared end.
C27_NestedWithinDeclaredEnd ==
    pc = "decoded"
        => result = BoundedDecode(decoder, NestedAlone(msgType[1], decoder, DeclaredBytes))

(***************************************************************************)
(* C28: several occurrences of one packed field.                           *)
(***************************************************************************)
RECURSIVE ElementsInOrder(_, _)
RECURSIVE ElementsAfterTag(_, _)
RECURSIVE ElementsAfterValue(_, _, _)
\* The int32 elements of field 1 in the stream b, in stream order, whether
\* they come in a block or one by one: [err, b, v].
ElementsInOrder(b, items) ==
    IF b = <<>> THEN Ok(<<>>, items) ELSE ElementsAfterTag(ConsumeTag(b), items)

ElementsAfterTag(t, items) ==
    IF t.err THEN Fail
    ELSE IF t.num = 1 /\ t.typ = BytesType
    THEN ElementsAfterValue("block", PackedBlock(ConsumeBytes(t.b, t.typ), VarintType, "ConsumeVarInt32"), items)
    ELSE IF t.num = 1
    THEN ElementsAfterValue("one", Consume("ConsumeVarInt32", t.b, t.typ), items)
    ELSE ElementsAfterValue("skip", SkipFieldValue(t.b, t.num, t.typ), items)

ElementsAfterValue(what, r, items) ==
    IF r.err THEN Fail
    ELSE ElementsInOrder(r.b, CASE what = "block" -> items \o r.v
                                [] what = "one" -> Append(items, r.v)
                                [] OTHER -> items)

\* C28: when a packed repeated field occurs several times in the stream, as
\* several blocks or as blocks and single elements, the Go decoder returns
\* the elements of every occurrence in stream order; a later occurrence
\* does not replace the elements of an earlier one.
C28_OccurrencesAppended ==
    (pc = "decoded" /\ decoder = "go" /\ msgType \in NestedSchemas /\ msgType[1].IsPacked
        /\ ~ElementsInOrder(wire, <<>>).err)
    => ~result.err /\ result.m[1] = ElementsInOrder(wire, <<>>).v

(***************************************************************************)
(* C29: the message a decoder returns for the empty byte string, encoded   *)
(* again by the same target.                                               *)
(***************************************************************************)
\* google.protobuf.Timestamp and Duration fields of the JS target, singular,
\* optional and repeated, without and with a native-type override.
JsWktField(wkt, label, js) ==
    [WktField(1, wkt, js) EXCEPT !.IsOptional = (label = "optional"),
                                 !.IsRepeated = (label = "repeated")]

JsWktSchemas ==
    {<<JsWktField(w, l, js)>> : w \in {"Timestamp", "Duration"},
                                l \in {"single", "optional", "repeated"},
                                js \in {"", "number", "bigint"}}

\* The message types each target's encoder and decoder are modelled for.
EmptySchemas(how) ==
    IF how = "go" THEN {s \in Schemas : ~HasWkt(s)} \cup GoWktSchemas
    ELSE Schemas \cup JsWktSchemas

InitEmpty ==
    /\ IdleRun
    /\ IdleLower
    /\ msgType \in EmptySchemas("go") \cup EmptySchemas("js")
    /\ msgValue = <<>>
    /\ wire = <<>>
    /\ clean = <<>>
    /\ cuts = <<0>>
    /\ unknown = 0
    /\ producer = "none"
    /\ decoder = "none"
    /\ result = NoResult
    /\ prior = NoPrior
    /\ pc = "encoded"

\* m, err := Decode<T>(nil)
EmptyDecode ==
    /\ pc = "encoded"
    /\ msgType \in EmptySchemas("go")
    /\ result' = GoDecode(msgType, wire)
    /\ decoder' = "go"
    /\ pc' = "decoded"
    /\ UNCHANGED <<msgType, msgValue, wire, clean, cuts, unknown, producer, prior>>
    /\ UNCHANGED <<lowerVars, runVars>>

\* message := decode<T>(new Uint8Array(0))
EmptyJsDecode ==
    /\ pc = "encoded"
    /\ msgType \in EmptySchemas("js")
    /\ result' = buildDecodeMessageFunc(msgType, wire)
    /\ decoder' = "js"
    /\ pc' = "decoded"
    /\ UNCHANGED <<msgType, msgValue, wire, clean, cuts, unknown, producer, prior>>
    /\ UNCHANGED <<lowerVars, runVars>>

\* b := m.Encode() on the decoded message.
EmptyEncode ==
    /\ pc = "decoded"
    /\ decoder = "go"
    /\ ~result.err
    /\ \E it \in Iterations(msgType, result.m) : wire' = GoEncode(msgType, it)
    /\ msgValue' = result.m
    /\ producer' = "go"
    /\ pc' = "again"
    /\ UNCHANGED <<msgType, clean, cuts, unknown, decoder, result, prior>>
    /\ UNCHANGED <<lowerVars, runVars>>

\* buffer := encode<T>(message) on the decoded message.
EmptyJsEncode ==
    /\ pc = "decoded"
    /\ decoder = "js"
    /\ ~result.err
    /\ \E it \in Iterations(msgType, result.m) : wire' = buildEncodeFunc(msgType, it)
    /\ msgValue' = result.m
    /\ producer' = "js"
    /\ pc' = "again"
    /\ UNCHANGED <<msgType, clean, cuts, unknown, decoder, result, prior>>
    /\ UNCHANGED <<lowerVars, runVars>>

NextEmpty == EmptyDecode \/ EmptyJsDecode \/ EmptyEncode \/ EmptyJsEncode

SpecEmpty == InitEmpty /\ [][NextEmpty]_vars

\* C29: in both targets, encoding the message decoded from the empty byte
\* string yields the empty byte string, for every message type, fields of
\* the Timestamp and Duration types with or without a native-type override
\* included.
C29_EmptyRoundTrip ==
    pc = "again" => wire = <<>>

(***************************************************************************)
(* C30: the decode loops of the Go runtime, one iteration at a time.       *)
(* decoder names the running function, clean is the slice it was called    *)
(* with, wire the slice its loop reads (b, entryBytes or packed), msgValue *)
(* the loop's local variables, and cuts records len(wire) at the head of   *)
(* the loop, once for the entry and once after every iteration.            *)
(***************************************************************************)
MaxRecords == 3

MaxIterations == 12

\* Records a loop may meet: field 1 as a varint and as a length-delimited
\* value, field 2 as a varint, unknown fields and a tag cut short.
LoopRecords ==
    {<<8, 5>>, <<16, 150, 1>>, <<10, 1, 97>>, <<24, 1>>, <<26, 1, 9>>, <<128>>}

RECURSIVE LoopStreams(_)
LoopStreams(n) ==
    IF n = 0 THEN {<<>>}
    ELSE LoopStreams(n - 1) \cup {s \o r : s \in LoopStreams(n - 1), r \in LoopRecords}

\* The payloads of a packed block: elements of one and two bytes, and a
\* last element cut short.
RECURSIVE PackedStreams(_)
PackedStreams(n) ==
    IF n = 0 THEN {<<>>}
    ELSE PackedStreams(n - 1)
         \cup {s \o e : s \in PackedStreams(n - 1), e \in {<<0>>, <<150, 1>>, <<128>>}}

LoopFunctions == {"DecodeTimestamp", "DecodeDuration", "ConsumeMapEntry", "ConsumeRepeatedCompact"}

\* The field whose generated case calls the function.
LoopFields(fn) ==
    CASE fn = "ConsumeMapEntry" -> {<<MapField(4, "String", "Int32")>>, <<MapField(4, "Int32", "String")>>}
      [] fn = "ConsumeRepeatedCompact" ->
            {<<Field(1, "Int32", "packed", "")>>, <<Field(1, "Fixed32", "packed", "")>>}
      [] OTHER -> {<<>>}

\* Messages of up to MaxRecords records.
MessageInputs == LoopStreams(MaxRecords)

\* The same as length-delimited values, and one cut short.
EntryInputs == {AppendBytes(<<>>, e) : e \in MessageInputs} \cup {<<3, 8>>}

\* Packed blocks of up to MaxRecords elements, and one cut short.
BlockInputs == {AppendBytes(<<>>, e) : e \in PackedStreams(MaxRecords)} \cup {<<3, 8>>}

\* The bytes the function is called with.
LoopInputs(fn) ==
    CASE fn = "ConsumeMapEntry" -> EntryInputs
      [] fn = "ConsumeRepeatedCompact" -> BlockInputs
      [] OTHER -> MessageInputs

\* The local variables of the function at its first line.
LoopLocals(fn, field) ==
    CASE fn = "ConsumeMapEntry" ->
            [key |-> ZeroMapPart(field[1].MapKeyKind), value |-> ZeroMapPart(field[1].MapValueKind)]
      [] fn = "ConsumeRepeatedCompact" -> <<>>
      [] OTHER -> [seconds |-> Zeros(8), nanos |-> Zeros(4)]

InitLoop ==
    /\ IdleRun
    /\ IdleLower
    /\ decoder = "none"
    /\ msgType = <<>>
    /\ clean = <<>>
    /\ msgValue = <<>>
    /\ wire = <<>>
    /\ cuts = <<>>
    /\ unknown = 0
    /\ producer = "none"
    /\ result = NoResult
    /\ prior = NoPrior
    /\ pc = "call"

\* The statements before the loop: none in DecodeTimestamp and
\* DecodeDuration; ConsumeMessage in ConsumeMapEntry and ConsumeBytes in
\* ConsumeRepeatedCompact, with typ the length-delimited wire type.
LoopSlice(fn, b) ==
    CASE fn = "ConsumeMapEntry" -> ConsumeMessage(b, BytesType)
      [] fn = "ConsumeRepeatedCompact" -> ConsumeBytes(b, BytesType)
      [] OTHER -> Ok(<<>>, b)

\* The function is called with the bytes b and runs up to the head of its
\* loop.
LoopEnter ==
    /\ pc = "call"
    /\ \E fn \in LoopFunctions :
        \E field \in LoopFields(fn), b \in LoopInputs(fn) :
            /\ decoder' = fn
            /\ msgType' = field
            /\ clean' = b
            /\ msgValue' = LoopLocals(fn, field)
            /\ \E r \in {LoopSlice(fn, b)} :
                IF r.err
                THEN /\ result' = [err |-> TRUE, m |-> <<>>]
                     /\ pc' = "returned"
                     /\ UNCHANGED <<wire, cuts>>
                ELSE /\ wire' = r.v
                     /\ cuts' = <<Len(r.v)>>
                     /\ pc' = "loop"
                     /\ UNCHANGED result
    /\ UNCHANGED <<unknown, producer, prior>>
    /\ UNCHANGED <<lowerVars, runVars>>

\* What the head of the loop body reads: the tag of the next record in the
\* three tag loops; nothing in ConsumeRepeatedCompact, whose elements have
\* no tags and are read with elemTyp.
LoopTag(fn, field, b) ==
    IF fn = "ConsumeRepeatedCompact"
    THEN [err |-> FALSE, b |-> b, num |-> 0, typ |-> goWireType(field[1].Kind)]
    ELSE ConsumeTag(b)

\* The read the body makes after the tag t: the arms of "switch num" in the
\* tag loops, consume(packed, elemTyp) in ConsumeRepeatedCompact.
LoopRead(fn, field, t) ==
    CASE t.err -> Fail
      [] fn = "ConsumeRepeatedCompact" -> Consume(goConsumeFunc(field[1].Kind), t.b, t.typ)
      [] fn = "ConsumeMapEntry" /\ t.num = 1 ->
            Consume(goConsumeFunc(field[1].MapKeyKind), t.b, t.typ)
      [] fn = "ConsumeMapEntry" /\ t.num = 2 -> ConsumeMapValue(field[1], t.b, t.typ)
      [] fn \in {"DecodeTimestamp", "DecodeDuration"} /\ t.num = 1 ->
            Consume("ConsumeVarInt64", t.b, t.typ)
      [] fn \in {"DecodeTimestamp", "DecodeDuration"} /\ t.num = 2 ->
            Consume("ConsumeVarInt32", t.b, t.typ)
      [] OTHER -> SkipFieldValue(t.b, t.num, t.typ)

\* The locals after the read of the value v under the field number num.
LoopAssign(fn, locals, num, v) ==
    CASE fn = "ConsumeRepeatedCompact" -> Append(locals, v)
      [] fn = "ConsumeMapEntry" ->
            [key |-> IF num = 1 THEN v ELSE locals.key,
             value |-> IF num = 2 THEN v ELSE locals.value]
      [] OTHER ->
            [seconds |-> IF num = 1 THEN v ELSE locals.seconds,
             nanos |-> IF num = 2 THEN v ELSE locals.nanos]

\* A loop variable that a read inside the body does not assign:
\* "_, v, err = consume(packed, elemTyp)".
LoopRestKept(b, r) == b

\* The loop variable b, entryBytes or packed after the body's read r:
\* "packed, v, err = consume(packed, elemTyp)" assigns it the rest.
LoopRest(b, r) == r.b

\* The loop condition holds and the body runs once: it returns the error
\* of a read that failed, or goes back to the head of the loop with the
\* slice the read left.
LoopIteration ==
    /\ pc = "loop"
    /\ Len(wire) > 0
    /\ Len(cuts) < MaxIterations
    /\ \E t \in {LoopTag(decoder, msgType, wire)} :
        \E r \in {LoopRead(decoder, msgType, t)} :
            IF r.err
            THEN /\ result' = [err |-> TRUE, m |-> <<>>]
                 /\ pc' = "returned"
                 /\ UNCHANGED <<wire, cuts, msgValue>>
            ELSE /\ wire' = LoopRest(wire, r)
                 /\ msgValue' = LoopAssign(decoder, msgValue, t.num, r.v)
                 /\ cuts' = Append(cuts, Len(LoopRest(wire, r)))
                 /\ UNCHANGED <<result, pc>>
    /\ UNCHANGED <<msgType, clean, unknown, producer, decoder, prior>>
    /\ UNCHANGED <<lowerVars, runVars>>

\* The value the function returns after its loop.
LoopValue(fn, locals) ==
    CASE fn = "DecodeTimestamp" -> TimeUnix(locals.seconds, IntOf(locals.nanos))
      [] fn = "DecodeDuration" -> DurationOf(locals.seconds, IntOf(locals.nanos))
      [] OTHER -> locals

\* The loop condition fails and the function returns its value.
LoopReturn ==
    /\ pc = "loop"
    /\ Len(wire) = 0
    /\ \E v \in {LoopValue(decoder, msgValue)} : result' = [err |-> FALSE, m |-> v]
    /\ pc' = "returned"
    /\ UNCHANGED <<msgType, msgValue, wire, clean, cuts, unknown, producer, decoder, prior>>
    /\ UNCHANGED <<lowerVars, runVars>>

NextLoop == LoopEnter \/ LoopIteration \/ LoopReturn

SpecLoop == InitLoop /\ [][NextLoop]_vars

\* A called function keeps running: its goroutine is scheduled until it
\* returns.
SpecLoopFair == SpecLoop /\ WF_vars(NextLoop)

\* An iteration returns an error or leaves the slice strictly shorter.
IterationShortens ==
    LoopIteration => (pc' = "returned" /\ result'.err) \/ Len(wire') < Len(wire)

\* C30: every decode loop of the Go runtime terminates: each iteration of
\* the tag loops of DecodeTimestamp, DecodeDuration and ConsumeMapEntry and
\* of the element loop of ConsumeRepeatedCompact returns an error or
\* strictly shortens the remaining slice, so the function returns a value
\* or an error after at most len(input) iterations.
C30_DecodeLoopsTerminate ==
    /\ [][IterationShortens]_vars
    /\ [](Len(cuts) - 1 <= Len(clean))
    /\ <>(pc = "returned")

\* A map entry read in three iterations, the function returning its value.
C30_Witness ==
    /\ pc = "returned"
    /\ decoder = "ConsumeMapEntry"
    /\ ~result.err
    /\ Len(cuts) = 4
    /\ cuts[4] = 0

====
